---- MODULE Spec2Model ----
(***************************************************************************)
(* Azure cloud provider: the retry wrappers of azure_backoff.go and the    *)
(* scale-set lookup and backend-pool logic of azure_vmss.go.               *)
(*                                                                         *)
(* Two specifications share the module:                                    *)
(*   Spec      the *WithRetry wrappers of azure_backoff.go, one step per   *)
(*             attempt of wait.ExponentialBackoff;                         *)
(*   SpecVmss  the scale-set operations of azure_vmss.go, one action per   *)
(*             call, over the Azure state and the two timed caches.        *)
(* The variables of the other half stay at their initial value.            *)
(***************************************************************************)
EXTENDS Integers, Sequences, FiniteSets, TLC

VARIABLES
    \* ---- azure_backoff.go
    CloudProviderBackoff,    \* az.CloudProviderBackoff
    resourceRequestBackoff,  \* az.resourceRequestBackoff (its Steps)
    bpc,                     \* position: "idle", "call", "list", "next", "done"
    op,                      \* the wrapper being executed
    backoff,                 \* the wait.Backoff of the running ExponentialBackoff
    i,                       \* the loop counter of the running ExponentialBackoff
    attempts,                \* outcome of every underlying SDK call of the operation
    loops,                   \* attempts made by each ExponentialBackoff loop that returned
    pages,                   \* the pages the service holds for the List call
    resultPage,              \* index of the page held by resultPage (0: zero value)
    allItems,                \* allNodes / allLBs / allPIPs
    ret,                     \* what the operation returned
    \* ---- azure_vmss.go
    useStandardLoadBalancer, \* ss.useStandardLoadBalancer()
    IPv6DualStack,           \* the IPv6DualStack feature gate
    azureVMs,                \* Azure: the scale-set VMs, by computer name
    azureVMSS,               \* Azure: the scale sets, by name
    vmssVMCache,             \* ss.vmssVMCache[vmssVirtualMachinesKey]: NoEntry or the VMs
    vmssCache,               \* ss.vmssCache[vmssKey]: NoEntry or the scale sets
    last                     \* the last scale-set call: its arguments, result and effects

backoffVars ==
    <<CloudProviderBackoff, resourceRequestBackoff, bpc, op, backoff, i, attempts,
      loops, pages, resultPage, allItems, ret>>

vmssVars ==
    <<useStandardLoadBalancer, IPv6DualStack, azureVMs, azureVMSS, vmssVMCache,
      vmssCache, last>>

vars ==
    <<backoffVars, vmssVars>>

\* ------------------------------------------------------------------ bounds

\* Largest Steps of the configured resourceRequestBackoff.
MaxSteps ==
    3

\* Largest number of pages the service holds for one List call.
MaxPages ==
    3

\* Largest number of items on one page.
MaxPageLen ==
    1

\* The largest number of nodes handed to GetVMSetNames.
MaxNodes ==
    2

\* The longest backend pool list Azure holds at the start.
MaxPools ==
    2

\* ------------------------------------------------------------------ values

Nil ==
    "nil"

\* wait.ErrWaitTimeout
ErrWaitTimeout ==
    "ErrWaitTimeout"

\* cloudprovider.InstanceNotFound
InstanceNotFound ==
    "InstanceNotFound"

\* Errors an SDK call can return.
ApiErrors ==
    {"apiErr"}

\* HTTP status codes of a response: a 2xx, a 3xx, a 4xx and a 5xx.
StatusCodes ==
    {200, 302, 404, 500}

MutatingOps ==
    {"CreateOrUpdateSGWithRetry", "CreateOrUpdateLBWithRetry",
     "CreateOrUpdatePIPWithRetry", "CreateOrUpdateInterfaceWithRetry",
     "DeletePublicIPWithRetry", "DeleteLBWithRetry",
     "CreateOrUpdateRouteTableWithRetry", "CreateOrUpdateRouteWithRetry",
     "DeleteRouteWithRetry", "CreateOrUpdateVMWithRetry"}

ListOps ==
    {"VirtualMachineClientListWithRetry", "ListLBWithRetry", "ListPIPWithRetry"}

\* ------------------------------------------------------------------ azure_backoff.go

\* The mutant of requestBackoff: the configured backoff whether or not backoff
\* is enabled.
requestBackoffAlwaysConfigured ==
    resourceRequestBackoff

requestBackoff ==
    IF CloudProviderBackoff
    THEN resourceRequestBackoff
    ELSE [Steps |-> 1]

isSuccessHTTPResponse(resp) ==
    199 < resp /\ resp < 300

shouldRetryAPIRequest(resp, err) ==
    IF err # Nil
    THEN TRUE
    ELSE 399 < resp /\ resp < 600

\* The (bool, error) a wait.ConditionFunc returns.
processRetryResponse(resp, err) ==
    IF isSuccessHTTPResponse(resp)
    THEN [done |-> TRUE, err |-> Nil]
    ELSE IF shouldRetryAPIRequest(resp, err)
         THEN [done |-> FALSE, err |-> Nil]
         ELSE [done |-> TRUE, err |-> err]

\* The condition function of the List and ListNextResults loops.
listCondition(retryErr) ==
    IF retryErr # Nil
    THEN [done |-> FALSE, err |-> retryErr]
    ELSE [done |-> TRUE, err |-> Nil]

\* wait.ExponentialBackoff stops at the first attempt whose condition returns
\* an error or true, and returns that error.
conditionEndsLoop(c) ==
    c.err # Nil \/ c.done

\* result.Value of page p (the zero value has none).
pageValue(p) ==
    IF p = 0 THEN <<>> ELSE pages[p]

\* result.NextLink != nil
hasNextLink(p) ==
    p # 0 /\ p < Len(pages)

\* Items are numbered in page order: page p of sizes s holds the numbers after
\* those of the pages before it.
RECURSIVE pagesOf(_, _)
pagesOf(sizes, from) ==
    IF sizes = <<>>
    THEN <<>>
    ELSE <<[k \in 1..Head(sizes) |-> from + k]>> \o pagesOf(Tail(sizes), from + Head(sizes))

PageSets ==
    {pagesOf(s, 0) : s \in UNION {[1..n -> 0..MaxPageLen] : n \in 1..MaxPages}}

RECURSIVE concat(_)
concat(ps) ==
    IF ps = <<>> THEN <<>> ELSE Head(ps) \o concat(Tail(ps))

\* ---- one mutating wrapper: wait.ExponentialBackoff(az.requestBackoff(), ...)

MutatingWithRetry(o) ==
    /\ bpc = "idle"
    /\ op' = o
    /\ backoff' = requestBackoff
    /\ i' = 0
    /\ attempts' = <<>>
    /\ bpc' = "call"
    /\ UNCHANGED <<CloudProviderBackoff, resourceRequestBackoff, loops, pages,
                   resultPage, allItems, ret>>
    /\ UNCHANGED vmssVars

\* One attempt: the SDK call, future.Result and processRetryResponse.
MutatingAttempt ==
    /\ bpc = "call"
    /\ i < backoff.Steps
    /\ \E resp \in StatusCodes, err \in {Nil} \cup ApiErrors :
         LET c == processRetryResponse(resp, err) IN
           /\ attempts' = Append(attempts, [resp |-> resp, err |-> err])
           /\ i' = i + 1
           /\ IF conditionEndsLoop(c)
              THEN /\ bpc' = "done"
                   /\ ret' = [value |-> <<>>, err |-> c.err]
                   /\ loops' = Append(loops, i + 1)
              ELSE UNCHANGED <<bpc, ret, loops>>
    /\ UNCHANGED <<CloudProviderBackoff, resourceRequestBackoff, op, backoff, pages,
                   resultPage, allItems>>
    /\ UNCHANGED vmssVars

\* ---- one listing wrapper

ListWithRetry(o) ==
    /\ bpc = "idle"
    /\ op' = o
    /\ \E ps \in PageSets : pages' = ps
    /\ backoff' = requestBackoff
    /\ i' = 0
    /\ attempts' = <<>>
    /\ resultPage' = 0
    /\ allItems' = <<>>
    /\ bpc' = "list"
    /\ UNCHANGED <<CloudProviderBackoff, resourceRequestBackoff, loops, ret>>
    /\ UNCHANGED vmssVars

\* The for appendResults loop, entered with result holding page p: what the
\* operation does until it returns or starts the next ExponentialBackoff.
appendLoop(p, all) ==
    IF Len(pageValue(p)) = 0
    THEN [pc |-> "done", all |-> all]
    ELSE IF hasNextLink(p)
         THEN [pc |-> "next", all |-> all \o pageValue(p)]
         ELSE [pc |-> "done", all |-> all \o pageValue(p)]

\* One attempt of the first loop: client.List and resultPage.Response().
ListAttempt ==
    /\ bpc = "list"
    /\ i < backoff.Steps
    /\ \E retryErr \in {Nil} \cup ApiErrors :
         LET c == listCondition(retryErr)
             p == IF retryErr = Nil THEN 1 ELSE 0
         IN
           /\ attempts' = Append(attempts, [resp |-> 0, err |-> retryErr])
           /\ resultPage' = p
           /\ IF conditionEndsLoop(c)
              THEN /\ loops' = Append(loops, i + 1)
                   /\ IF c.err # Nil
                      THEN /\ bpc' = "done"
                           /\ ret' = [value |-> <<>>, err |-> c.err]
                           /\ i' = i + 1
                           /\ UNCHANGED <<allItems, backoff>>
                      ELSE LET a == appendLoop(p, allItems) IN
                           /\ bpc' = a.pc
                           /\ allItems' = a.all
                           /\ ret' = IF a.pc = "done"
                                     THEN [value |-> a.all, err |-> Nil]
                                     ELSE ret
                           /\ i' = IF a.pc = "next" THEN 0 ELSE i + 1
                           /\ backoff' = IF a.pc = "next" THEN requestBackoff ELSE backoff
              ELSE /\ i' = i + 1
                   /\ UNCHANGED <<bpc, ret, loops, allItems, backoff>>
    /\ UNCHANGED <<CloudProviderBackoff, resourceRequestBackoff, op, pages>>
    /\ UNCHANGED vmssVars

\* One attempt of a next-page loop: resultPage.Next() and resultPage.Response().
\* A failed Next leaves resultPage on its page.
NextAttempt ==
    /\ bpc = "next"
    /\ i < backoff.Steps
    /\ \E retryErr \in {Nil} \cup ApiErrors :
         LET c == listCondition(retryErr)
             p == IF retryErr = Nil THEN resultPage + 1 ELSE resultPage
         IN
           /\ attempts' = Append(attempts, [resp |-> 0, err |-> retryErr])
           /\ resultPage' = p
           /\ IF conditionEndsLoop(c)
              THEN /\ loops' = Append(loops, i + 1)
                   /\ IF c.err # Nil
                      THEN /\ bpc' = "done"
                           /\ ret' = [value |-> allItems, err |-> c.err]
                           /\ i' = i + 1
                           /\ UNCHANGED <<allItems, backoff>>
                      ELSE LET a == appendLoop(p, allItems) IN
                           /\ bpc' = a.pc
                           /\ allItems' = a.all
                           /\ ret' = IF a.pc = "done"
                                     THEN [value |-> a.all, err |-> Nil]
                                     ELSE ret
                           /\ i' = IF a.pc = "next" THEN 0 ELSE i + 1
                           /\ backoff' = IF a.pc = "next" THEN requestBackoff ELSE backoff
              ELSE /\ i' = i + 1
                   /\ UNCHANGED <<bpc, ret, loops, allItems, backoff>>
    /\ UNCHANGED <<CloudProviderBackoff, resourceRequestBackoff, op, pages>>
    /\ UNCHANGED vmssVars

\* wait.ExponentialBackoff ran out of steps: it returns wait.ErrWaitTimeout, which
\* a mutating wrapper returns as it is, the first List loop with a nil slice, a
\* next-page loop with the items gathered so far.
BackoffTimeout ==
    /\ bpc \in {"call", "list", "next"}
    /\ i >= backoff.Steps
    /\ bpc' = "done"
    /\ ret' = [value |-> IF bpc = "next" THEN allItems ELSE <<>>, err |-> ErrWaitTimeout]
    /\ loops' = Append(loops, i)
    /\ UNCHANGED <<CloudProviderBackoff, resourceRequestBackoff, op, backoff, i,
                   attempts, pages, resultPage, allItems>>
    /\ UNCHANGED vmssVars

\* ---- GetVirtualMachineWithRetry

\* The condition function of GetVirtualMachineWithRetry: a failed attempt asks
\* for another one without an error.
getVirtualMachineCondition(retryErr) ==
    IF retryErr # Nil
    THEN [done |-> FALSE, err |-> Nil]
    ELSE [done |-> TRUE, err |-> Nil]

\* The mutant of getVirtualMachineError: the error of the backoff is returned.
getVirtualMachineErrorOfBackoff(err, retryErr) ==
    err

\* The error GetVirtualMachineWithRetry returns: the error of the last attempt
\* in place of wait.ErrWaitTimeout.
getVirtualMachineError(err, retryErr) ==
    IF err = ErrWaitTimeout THEN retryErr ELSE err

GetVirtualMachineWithRetry ==
    /\ bpc = "idle"
    /\ op' = "GetVirtualMachineWithRetry"
    /\ backoff' = requestBackoff
    /\ i' = 0
    /\ attempts' = <<>>
    /\ bpc' = "get"
    /\ UNCHANGED <<CloudProviderBackoff, resourceRequestBackoff, loops, pages,
                   resultPage, allItems, ret>>
    /\ UNCHANGED vmssVars

\* One attempt: az.getVirtualMachine, which returns the machine, an API error
\* or cloudprovider.InstanceNotFound.
GetVirtualMachineAttempt ==
    /\ bpc = "get"
    /\ i < backoff.Steps
    /\ \E retryErr \in {Nil, InstanceNotFound} \cup ApiErrors :
         LET c == getVirtualMachineCondition(retryErr) IN
           /\ attempts' = Append(attempts, [resp |-> 0, err |-> retryErr])
           /\ i' = i + 1
           /\ IF conditionEndsLoop(c)
              THEN /\ bpc' = "done"
                   /\ ret' = [value |-> <<"machine">>,
                              err |-> getVirtualMachineError(c.err, retryErr)]
                   /\ loops' = Append(loops, i + 1)
              ELSE UNCHANGED <<bpc, ret, loops>>
    /\ UNCHANGED <<CloudProviderBackoff, resourceRequestBackoff, op, backoff, pages,
                   resultPage, allItems>>
    /\ UNCHANGED vmssVars

\* wait.ExponentialBackoff ran out of steps: retryErr is the error of the last
\* attempt, nil when there was none.
GetVirtualMachineTimeout ==
    /\ bpc = "get"
    /\ i >= backoff.Steps
    /\ bpc' = "done"
    /\ ret' = [value |-> <<>>,
               err |-> getVirtualMachineError(
                           ErrWaitTimeout,
                           IF attempts = <<>> THEN Nil ELSE attempts[Len(attempts)].err)]
    /\ loops' = Append(loops, i)
    /\ UNCHANGED <<CloudProviderBackoff, resourceRequestBackoff, op, backoff, i,
                   attempts, pages, resultPage, allItems>>
    /\ UNCHANGED vmssVars

\* The caller takes the result; the next operation can start.
Return ==
    /\ bpc = "done"
    /\ bpc' = "idle"
    /\ op' = "none"
    /\ backoff' = [Steps |-> 0]
    /\ i' = 0
    /\ attempts' = <<>>
    /\ loops' = <<>>
    /\ pages' = <<>>
    /\ resultPage' = 0
    /\ allItems' = <<>>
    /\ ret' = [value |-> <<>>, err |-> Nil]
    /\ UNCHANGED <<CloudProviderBackoff, resourceRequestBackoff>>
    /\ UNCHANGED vmssVars

\* ------------------------------------------------------------------ azure_vmss.go: values

\* A timed cache without an entry for the key (never filled, deleted or expired).
NoEntry ==
    [present |-> FALSE, data |-> <<>>]

\* A timed cache holding the data fetched for the key.
entry(data) ==
    [present |-> TRUE, data |-> data]

\* A getter that found nothing (a nil result without error).
NotFound ==
    [found |-> FALSE]

ErrorNotVmssInstance ==
    "ErrorNotVmssInstance"

\* The error of a cache Get whose refetch from Azure failed.
ErrCacheGet ==
    "cacheGetErr"

\* Machine names, as their characters: two scale-set instance names, a name
\* shorter than six characters and a name whose last six are not base 36.
vm0 ==
    <<"v", "m", "0", "0", "0", "0", "0", "0">>

vm1 ==
    <<"v", "m", "0", "0", "0", "0", "0", "1">>

shortName ==
    <<"v", "m", "1">>

master0 ==
    <<"m", "a", "s", "t", "e", "r", "-", "0">>

MachineNames ==
    {vm0, vm1, shortName, master0}

\* The machines that are instances of a scale set when they exist in Azure.
ScaleSetVMNames ==
    {vm0, vm1}

\* The nodes availabilitySetNodesCache lists.
AvailabilitySetNodes ==
    {master0}

ScaleSetNames ==
    {"vmss1", "VMSS1", "vmss2"}

\* strings.ToLower on the strings of the model.
ToLower(s) ==
    CASE s = "RG1" -> "rg1"
      [] s = "VMSS1" -> "vmss1"
      [] s = "POOL1" -> "pool1"
      [] s = "Pool1" -> "pool1"
      [] s = "Vmss1" -> "vmss1"
      [] OTHER -> s

\* strings.EqualFold
EqualFold(s, t) ==
    ToLower(s) = ToLower(t)

\* A nil NetworkInterfaceConfigurations.
NilNics ==
    "nil"

ipConfiguration(primary, version, pools) ==
    [Primary |-> primary, PrivateIPAddressVersion |-> version,
     LoadBalancerBackendAddressPools |-> pools]

\* The scale-set VM Azure holds for a machine name, with the given pools on the
\* primary IP configuration of its primary interface. vm0 has two interfaces,
\* the second primary with an IPv4 (primary) and an IPv6 configuration; vm1 is
\* deallocated and has no interface configurations.
scaleSetVM(name, pools) ==
    [vmssName |-> "vmss1",
     instanceID |-> IF name = vm0 THEN "0" ELSE "1",
     resourceGroup |-> "rg1",
     ID |-> [subscription |-> "sub", resourceGroup |-> "RG1", scaleSet |-> "vmss1",
             instanceID |-> IF name = vm0 THEN "0" ELSE "1"],
     powerState |-> IF name = vm0 THEN "running" ELSE "deallocated",
     NetworkInterfaceConfigurations |->
        IF name = vm0
        THEN << [Primary |-> FALSE,
                 IPConfigurations |-> <<ipConfiguration(FALSE, "IPv4", <<>>)>>],
                [Primary |-> TRUE,
                 IPConfigurations |-> <<ipConfiguration(TRUE, "IPv4", pools),
                                        ipConfiguration(FALSE, "IPv6", <<>>)>>] >>
        ELSE NilNics]

\* The scale set Azure holds under a name, with the given pools on the primary
\* IP configuration of its model. vmss1 has one interface; any other scale set
\* has two, neither marked primary.
scaleSetModel(name, pools) ==
    [Name |-> name,
     ProvisioningState |-> "Succeeded",
     NetworkInterfaceConfigurations |->
        IF name = "vmss1"
        THEN << [Primary |-> TRUE,
                 IPConfigurations |-> <<ipConfiguration(TRUE, "IPv4", pools)>>] >>
        ELSE << [Primary |-> FALSE,
                 IPConfigurations |-> <<ipConfiguration(TRUE, "IPv4", pools)>>],
                [Primary |-> FALSE,
                 IPConfigurations |-> <<ipConfiguration(TRUE, "IPv4", <<>>)>>] >>]

\* ------------------------------------------------------------------ the timed caches

\* timedCache.Get: the entry when the cache holds one, otherwise what the getter
\* fetches from Azure (which is stored) or the getter's error.
cacheGet(cache, truth, fetch) ==
    IF cache.present
    THEN [err |-> Nil, data |-> cache.data, cache |-> cache]
    ELSE IF fetch = "err"
         THEN [err |-> ErrCacheGet, data |-> <<>>, cache |-> NoEntry]
         ELSE [err |-> Nil, data |-> truth, cache |-> entry(truth)]

\* timedCache.Delete
cacheDelete(cache) ==
    NoEntry

FetchOutcomes ==
    {"ok", "err"}

\* ------------------------------------------------------------------ lookups

\* vmsses.Load(vmssName)
loadVMSS(data, vmssName) ==
    IF vmssName \in DOMAIN data THEN data[vmssName] ELSE NotFound

\* virtualMachines.Load(nodeName)
loadVM(data, nodeName) ==
    IF nodeName \in DOMAIN data THEN data[nodeName] ELSE NotFound

\* virtualMachines.Range: an entry whose resource group, scale set and instance
\* ID equal the arguments case-insensitively.
rangeVM(data, resourceGroup, scaleSetName, instanceID) ==
    LET hits == {n \in DOMAIN data :
                   /\ EqualFold(data[n].resourceGroup, resourceGroup)
                   /\ EqualFold(data[n].vmssName, scaleSetName)
                   /\ EqualFold(data[n].instanceID, instanceID)}
    IN IF hits = {} THEN NotFound ELSE data[CHOOSE n \in hits : TRUE]

\* The search a lookup makes in the cached data: Load by scale-set name, Load
\* by node name, or Range over the instances.
find(data, key) ==
    CASE key.by = "vmssName" -> loadVMSS(data, key.name)
      [] key.by = "nodeName" -> loadVM(data, key.name)
      [] OTHER -> rangeVM(data, key.resourceGroup, key.scaleSetName, key.instanceID)

\* The body shared by getVMSS, getVmssVM and getVmssVMByInstanceID: the getter,
\* and on a miss the Delete of the key and the getter again. key names the search
\* in the cached data.
refreshOnMiss(cache, truth, f1, f2, key) ==
    LET g1 == cacheGet(cache, truth, f1) IN
    IF g1.err # Nil
    THEN [err |-> g1.err, value |-> NotFound, gets |-> 1, deletes |-> 0, cache |-> g1.cache]
    ELSE IF find(g1.data, key) # NotFound
         THEN [err |-> Nil, value |-> find(g1.data, key), gets |-> 1, deletes |-> 0,
               cache |-> g1.cache]
         ELSE LET g2 == cacheGet(cacheDelete(g1.cache), truth, f2) IN
              IF g2.err # Nil
              THEN [err |-> g2.err, value |-> NotFound, gets |-> 2, deletes |-> 1,
                    cache |-> g2.cache]
              ELSE IF find(g2.data, key) = NotFound
                   THEN [err |-> InstanceNotFound, value |-> NotFound, gets |-> 2,
                         deletes |-> 1, cache |-> g2.cache]
                   ELSE [err |-> Nil, value |-> find(g2.data, key), gets |-> 2,
                         deletes |-> 1, cache |-> g2.cache]

getVMSS(cache, truth, vmssName, f1, f2) ==
    refreshOnMiss(cache, truth, f1, f2, [by |-> "vmssName", name |-> vmssName])

\* The digits of base 36, in order of value.
Base36Digits ==
    <<"0", "1", "2", "3", "4", "5", "6", "7", "8", "9", "a", "b", "c", "d", "e", "f",
      "g", "h", "i", "j", "k", "l", "m", "n", "o", "p", "q", "r", "s", "t", "u", "v",
      "w", "x", "y", "z">>

isBase36Digit(c) ==
    \E k \in 1..Len(Base36Digits) : Base36Digits[k] = c

digitValue(c) ==
    (CHOOSE k \in 1..Len(Base36Digits) : Base36Digits[k] = c) - 1

\* strconv.ParseUint(s, 36, 64) of a string of base-36 digits.
RECURSIVE parseBase36(_)
parseBase36(s) ==
    IF s = <<>>
    THEN 0
    ELSE parseBase36(SubSeq(s, 1, Len(s) - 1)) * Len(Base36Digits) + digitValue(s[Len(s)])

\* The instance ID is the number the last six characters spell in base 36.
getScaleSetVMInstanceID(machineName) ==
    LET nameLength == Len(machineName)
        suffix == SubSeq(machineName, nameLength - 5, nameLength)
    IN
    IF nameLength < 6
    THEN [id |-> 0, err |-> ErrorNotVmssInstance]
    ELSE IF \E k \in 1..Len(suffix) : ~isBase36Digit(suffix[k])
         THEN [id |-> 0, err |-> ErrorNotVmssInstance]
         ELSE [id |-> parseBase36(suffix), err |-> Nil]

\* The mutant of getVmssVM: a miss is final, the cache is not refreshed.
getVmssVMNoRefresh(cache, truth, nodeName, f1, f2) ==
    LET g1 == cacheGet(cache, truth, f1) IN
    IF g1.err # Nil
    THEN [err |-> g1.err, value |-> NotFound, gets |-> 1, deletes |-> 0, cache |-> g1.cache]
    ELSE IF nodeName \in DOMAIN g1.data
         THEN [err |-> Nil, value |-> g1.data[nodeName], gets |-> 1, deletes |-> 0,
               cache |-> g1.cache]
         ELSE [err |-> InstanceNotFound, value |-> NotFound, gets |-> 1, deletes |-> 0,
               cache |-> g1.cache]

getVmssVM(cache, truth, nodeName, f1, f2) ==
    IF getScaleSetVMInstanceID(nodeName).err # Nil
    THEN [err |-> getScaleSetVMInstanceID(nodeName).err, value |-> NotFound, gets |-> 0,
          deletes |-> 0, cache |-> cache]
    ELSE refreshOnMiss(cache, truth, f1, f2, [by |-> "nodeName", name |-> nodeName])

getVmssVMByInstanceID(cache, truth, resourceGroup, scaleSetName, instanceID, f1, f2) ==
    refreshOnMiss(cache, truth, f1, f2,
                  [by |-> "instanceID", resourceGroup |-> resourceGroup,
                   scaleSetName |-> scaleSetName, instanceID |-> instanceID])

\* ss.isNodeManagedByAvailabilitySet: whether availabilitySetNodesCache lists the
\* node, or the error of reading that cache.
isNodeManagedByAvailabilitySet(nodeName, fetch) ==
    IF fetch = "err"
    THEN [managed |-> FALSE, err |-> ErrCacheGet]
    ELSE [managed |-> nodeName \in AvailabilitySetNodes, err |-> Nil]

\* convertResourceGroupNameToLower: the resource ID with its resource group in
\* lower case.
convertResourceGroupNameToLower(resourceID) ==
    [resourceID EXCEPT !.resourceGroup = ToLower(@)]

\* What the availability set answers for a node it manages.
Delegated ==
    [delegatedTo |-> "availabilitySet"]

\* The empty string returned with an error.
EmptyID ==
    [subscription |-> "", resourceGroup |-> "", scaleSet |-> "", instanceID |-> ""]

GetInstanceIDByNodeName(cache, truth, name, fas, f1, f2) ==
    LET as == isNodeManagedByAvailabilitySet(name, fas)
        r == getVmssVM(cache, truth, name, f1, f2)
    IN
    IF as.err # Nil
    THEN [err |-> as.err, value |-> EmptyID, gets |-> 0, deletes |-> 0, cache |-> cache]
    ELSE IF as.managed
         THEN [err |-> Nil, value |-> Delegated, gets |-> 0, deletes |-> 0, cache |-> cache]
         ELSE IF r.err # Nil
              THEN [r EXCEPT !.value = EmptyID]
              ELSE [r EXCEPT !.value = convertResourceGroupNameToLower(r.value.ID)]

\* ------------------------------------------------------------------ backend pools

\* The pool lists Azure holds at the start: every list of at most MaxPools of
\* these IDs, repeated IDs included.
InitialPoolIDs ==
    {"pool1", "pool2"}

PoolLists ==
    UNION {[1..n -> InitialPoolIDs] : n \in 0..MaxPools}

\* The pools the calls name: one in the letter case Azure holds, one not.
BackendPoolIDs ==
    {"POOL1", "pool2"}

\* The index of the configuration the getPrimary... functions return: the only
\* one, else the first marked primary; 0 stands for their error.
firstPrimary(configs) ==
    IF Len(configs) = 1
    THEN 1
    ELSE IF \E k \in 1..Len(configs) : configs[k].Primary
         THEN CHOOSE k \in 1..Len(configs) :
                /\ configs[k].Primary
                /\ \A j \in 1..(k - 1) : ~configs[j].Primary
         ELSE 0

getPrimaryNetworkInterfaceConfiguration(networkConfigurations) ==
    firstPrimary(networkConfigurations)

getPrimaryIPConfigFromVMSSNetworkConfig(config) ==
    firstPrimary(config.IPConfigurations)

getPrimaryNetworkConfiguration(networkConfigurationList) ==
    firstPrimary(networkConfigurationList)

getPrimaryIPConfigForScaleSet(config) ==
    firstPrimary(config.IPConfigurations)

getPrimaryNetworkInterfaceConfigurationForScaleSet(networkConfigurations) ==
    firstPrimary(networkConfigurations)

\* The index of the first IP configuration of the family; 0 stands for the error.
getConfigForScaleSetByIPFamily(config, IPv6) ==
    LET ipVersion == IF IPv6 THEN "IPv6" ELSE "IPv4"
        ipConfigurations == config.IPConfigurations
    IN IF \E k \in 1..Len(ipConfigurations) :
             ipConfigurations[k].PrivateIPAddressVersion = ipVersion
       THEN CHOOSE k \in 1..Len(ipConfigurations) :
              /\ ipConfigurations[k].PrivateIPAddressVersion = ipVersion
              /\ \A j \in 1..(k - 1) :
                    ipConfigurations[j].PrivateIPAddressVersion # ipVersion
       ELSE 0

\* The pools of IP configuration ip of interface nic.
poolsAt(configs, nic, ip) ==
    configs[nic].IPConfigurations[ip].LoadBalancerBackendAddressPools

\* primaryIPConfiguration.LoadBalancerBackendAddressPools = &newBackendPools, on
\* the object the configurations belong to.
withPools(object, nic, ip, pools) ==
    [object EXCEPT !.NetworkInterfaceConfigurations[nic].IPConfigurations[ip]
                      .LoadBalancerBackendAddressPools = pools]

\* The mutant of foundPool: IDs are compared byte by byte.
foundPoolExact(pools, backendPoolID) ==
    \E k \in 1..Len(pools) : backendPoolID = pools[k]

\* for _, existingPool := range newBackendPools { if strings.EqualFold(...) }
foundPool(pools, backendPoolID) ==
    \E k \in 1..Len(pools) : EqualFold(backendPoolID, pools[k])

\* append(existing[:i], existing[i+1:]...) on the backing array of a slice of
\* length n: the elements after index idx move one place down, the last stays.
shiftDown(array, idx) ==
    [k \in 1..Len(array) |->
        IF k < idx THEN array[k]
        ELSE IF k < Len(array) THEN array[k + 1]
        ELSE array[k]]

\* The removal loop from index idx down: existingBackendPools keeps its length
\* and reads the backing array as the appends have left it; newBackendPools is
\* the result of the last append.
RECURSIVE removalLoop(_, _, _, _, _)
removalLoop(array, idx, poolID, newBackendPools, found) ==
    IF idx = 0
    THEN [found |-> found, newBackendPools |-> newBackendPools, array |-> array]
    ELSE IF EqualFold(poolID, array[idx])
         THEN removalLoop(shiftDown(array, idx), idx - 1, poolID,
                          SubSeq(shiftDown(array, idx), 1, Len(array) - 1), TRUE)
         ELSE removalLoop(array, idx - 1, poolID, newBackendPools, found)

removePool(existingBackendPools, poolID) ==
    removalLoop(existingBackendPools, Len(existingBackendPools), poolID, <<>>, FALSE)

\* What Azure answers to an Update or CreateOrUpdate.
UpdateOutcomes ==
    {[resp |-> 200, err |-> Nil], [resp |-> 500, err |-> "apiErr"]}

\* shouldRetryHTTPRequest: an error, or a status that asks for a retry.
shouldRetryHTTPRequest(resp, err) ==
    err # Nil \/ resp = 429 \/ (499 < resp /\ resp < 600)

\* The result of a pool operation before it has read or done anything.
poolResult(err, cache, azure) ==
    [err |-> err, cache |-> cache, azure |-> azure, prev |-> <<>>, found |-> FALSE,
     payload |-> <<>>, updates |-> 0, invalidated |-> FALSE]

\* VirtualMachineScaleSetVMsClient.Update and, with CloudProviderBackoff, the
\* UpdateVmssVMWithRetry that follows a failure: the error returned, Azure
\* afterwards and the number of the two that ran. Azure takes the interface
\* configurations of an accepted update.
updateVmssVM(azure, nodeName, configs, update, retry) ==
    LET accepted == [azure EXCEPT ![nodeName].NetworkInterfaceConfigurations = configs]
        first == IF nodeName \in DOMAIN azure THEN update
                 ELSE [resp |-> 404, err |-> "apiErr"]
    IN
    IF CloudProviderBackoff /\ shouldRetryHTTPRequest(first.resp, first.err)
    THEN IF retry.err # Nil \/ nodeName \notin DOMAIN azure
         THEN [err |-> ErrWaitTimeout, azure |-> azure, updates |-> 2]
         ELSE [err |-> first.err, azure |-> accepted, updates |-> 2]
    ELSE [err |-> first.err,
          azure |-> IF first.err = Nil THEN accepted ELSE azure,
          updates |-> 1]

\* What isBackendPoolOnSameLB answers.
SameLBOutcomes ==
    {"same", "other", "err"}

\* The environment of one call on a scale-set VM: the two cache fetches, the
\* answer of isBackendPoolOnSameLB, the error of GetNodeResourceGroup, and what
\* Azure answers to the Update and to its retries.
callEnv(f, sameLB, nrg, update, retry) ==
    [f1 |-> f[1], f2 |-> f[2], sameLB |-> sameLB, nrg |-> nrg, update |-> update,
     retry |-> retry]

\* The IP configuration EnsureHostInPool takes for the primary one, in the
\* interface nic: the primary one, or with IPv6DualStack the first of the
\* family of the service's cluster IP.
ensureHostIPConfiguration(config, ipv6) ==
    IF ~IPv6DualStack
    THEN getPrimaryIPConfigFromVMSSNetworkConfig(config)
    ELSE getConfigForScaleSetByIPFamily(config, ipv6)

\* EnsureHostInPool from the comparison with the existing pools on: vm is the
\* cached object, which the assignment of the new pool list changes in place.
ensureHostAddPool(cache, azure, nodeName, backendPoolID, vm, nic, ip, env) ==
    LET prev == poolsAt(vm.NetworkInterfaceConfigurations, nic, ip)
        newBackendPools == Append(prev, backendPoolID)
        newVM == withPools(vm, nic, ip, newBackendPools)
        changed == [cache EXCEPT !.data[nodeName] = newVM]
        sent == updateVmssVM(azure, nodeName, newVM.NetworkInterfaceConfigurations,
                             env.update, env.retry)
        read == [poolResult(Nil, cache, azure) EXCEPT !.prev = prev]
    IN
    IF foundPool(prev, backendPoolID)
    THEN [read EXCEPT !.found = TRUE]
    ELSE IF useStandardLoadBalancer /\ Len(prev) > 0 /\ env.sameLB = "err"
    THEN [read EXCEPT !.err = "sameLBErr"]
    ELSE IF useStandardLoadBalancer /\ Len(prev) > 0 /\ env.sameLB = "other"
    THEN read
    ELSE IF env.nrg = "err"
    THEN [read EXCEPT !.err = "nodeResourceGroupErr", !.cache = changed]
    ELSE [read EXCEPT !.err = sent.err, !.azure = sent.azure, !.payload = newBackendPools,
                      !.updates = sent.updates, !.invalidated = TRUE,
                      !.cache = cacheDelete(changed)]

EnsureHostInPool(cache, azure, nodeName, backendPoolID, vmSetName, ipv6, env) ==
    LET r == getVmssVM(cache, azure, nodeName, env.f1, env.f2)
        vm == r.value
        configs == vm.NetworkInterfaceConfigurations
        nic == getPrimaryNetworkInterfaceConfiguration(configs)
        ip == ensureHostIPConfiguration(configs[nic], ipv6)
    IN
    IF r.err # Nil
    THEN poolResult(r.err, r.cache, azure)
    ELSE IF vmSetName # "" /\ ~useStandardLoadBalancer /\ ~EqualFold(vmSetName, vm.vmssName)
    THEN poolResult(Nil, r.cache, azure)
    ELSE IF configs = NilNics
    THEN poolResult(Nil, r.cache, azure)
    ELSE IF nic = 0
    THEN poolResult("noPrimaryInterface", r.cache, azure)
    ELSE IF ip = 0
    THEN poolResult("noPrimaryIPConfiguration", r.cache, azure)
    ELSE ensureHostAddPool(r.cache, azure, nodeName, backendPoolID, vm, nic, ip, env)

\* ensureBackendPoolDeletedFromNode from the removal loop on.
deleteFromNodePools(cache, azure, nodeName, backendPoolID, vm, nic, ip, env) ==
    LET prev == poolsAt(vm.NetworkInterfaceConfigurations, nic, ip)
        removed == removePool(prev, backendPoolID)
        newVM == withPools(vm, nic, ip, removed.newBackendPools)
        \* Without a match the cached list is untouched; with one the cached
        \* object holds the new list.
        changed == [cache EXCEPT !.data[nodeName] = newVM]
        sent == updateVmssVM(azure, nodeName, newVM.NetworkInterfaceConfigurations,
                             env.update, env.retry)
        read == [poolResult(Nil, cache, azure) EXCEPT !.prev = prev]
    IN
    IF Len(prev) = 0
    THEN read
    ELSE IF ~removed.found
    THEN read
    ELSE IF env.nrg = "err"
    THEN [read EXCEPT !.err = "nodeResourceGroupErr", !.found = TRUE, !.cache = changed]
    ELSE [read EXCEPT !.err = sent.err, !.azure = sent.azure, !.found = TRUE,
                      !.payload = removed.newBackendPools, !.updates = sent.updates,
                      !.invalidated = TRUE, !.cache = cacheDelete(changed)]

ensureBackendPoolDeletedFromNode(cache, azure, nodeName, backendPoolID, env) ==
    LET r == getVmssVM(cache, azure, nodeName, env.f1, env.f2)
        vm == r.value
        configs == vm.NetworkInterfaceConfigurations
        nic == getPrimaryNetworkInterfaceConfiguration(configs)
        ip == getPrimaryIPConfigFromVMSSNetworkConfig(configs[nic])
    IN
    IF r.err # Nil
    THEN poolResult(r.err, r.cache, azure)
    ELSE IF configs = NilNics
    THEN poolResult(Nil, r.cache, azure)
    ELSE IF nic = 0
    THEN poolResult("noPrimaryInterface", r.cache, azure)
    ELSE IF ip = 0
    THEN poolResult("noPrimaryIPConfiguration", r.cache, azure)
    ELSE deleteFromNodePools(r.cache, azure, nodeName, backendPoolID, vm, nic, ip, env)

\* ---- the scale-set model

\* ss.ResourceGroup
ClusterResourceGroup ==
    "rg1"

\* The environment of one call on a scale set: the cache fetches, whether
\* Config.shouldOmitCloudProviderBackoff() holds, the answer of
\* isBackendPoolOnSameLB, and what Azure answers to the CreateOrUpdate, to its
\* retries or repetition, and to UpdateInstances.
scaleSetEnv(f, omit, sameLB, createOrUpdate, again, updateInstances) ==
    [f1 |-> f[1], f2 |-> f[2], omit |-> omit, sameLB |-> sameLB,
     createOrUpdate |-> createOrUpdate, again |-> again,
     updateInstances |-> updateInstances]

\* getScaleSet and getScaleSetWithRetry: the scale set the cache holds under the
\* name. A failing read is answered "does not exist" without error when backoff
\* is omitted, and retried to the timeout otherwise.
getScaleSet(cache, truth, name, fetch, omit) ==
    LET g == cacheGet(cache, truth, fetch) IN
    IF g.err # Nil
    THEN [value |-> NotFound, exists |-> FALSE,
          err |-> IF omit THEN Nil ELSE ErrWaitTimeout, cache |-> g.cache]
    ELSE [value |-> loadVMSS(g.data, name), exists |-> loadVMSS(g.data, name) # NotFound,
          err |-> Nil, cache |-> g.cache]

\* createOrUpdateVMSS and createOrUpdateVMSSWithRetry: the error, and Azure with
\* the scale set as sent when the call is accepted.
createOrUpdateVMSS(azure, virtualMachineScaleSet, outcome) ==
    IF outcome.err # Nil \/ virtualMachineScaleSet.Name \notin DOMAIN azure
    THEN [err |-> "apiErr", azure |-> azure]
    ELSE [err |-> Nil,
          azure |-> [azure EXCEPT ![virtualMachineScaleSet.Name] = virtualMachineScaleSet]]

\* updateVMSSInstances: the error of UpdateInstances.
updateVMSSInstances(outcome) ==
    outcome.err

\* ensureHostsInVMSetPool once the primary IP configuration is found.
ensureVMSetAddPool(cache, azure, backendPoolID, vmss, nic, ip, env) ==
    LET prev == poolsAt(vmss.NetworkInterfaceConfigurations, nic, ip)
        newBackendPools == Append(prev, backendPoolID)
        newVMSS == withPools(vmss, nic, ip, newBackendPools)
        changed == [cache EXCEPT !.data[vmss.Name] = newVMSS]
        sent == createOrUpdateVMSS(azure, newVMSS, env.createOrUpdate)
        read == [poolResult(Nil, cache, azure) EXCEPT !.prev = prev]
    IN
    IF foundPool(prev, backendPoolID)
    THEN [read EXCEPT !.found = TRUE, !.err = updateVMSSInstances(env.updateInstances)]
    ELSE IF useStandardLoadBalancer /\ Len(prev) > 0 /\ env.sameLB = "err"
    THEN [read EXCEPT !.err = "sameLBErr"]
    ELSE IF useStandardLoadBalancer /\ Len(prev) > 0 /\ env.sameLB = "other"
    THEN read
    ELSE IF sent.err # Nil
    THEN [read EXCEPT !.err = sent.err, !.cache = changed, !.payload = newBackendPools,
                      !.updates = 1]
    ELSE [read EXCEPT !.err = updateVMSSInstances(env.updateInstances),
                      !.azure = sent.azure, !.cache = changed,
                      !.payload = newBackendPools, !.updates = 1]

ensureHostsInVMSetPool(cache, azure, backendPoolID, vmSetName, env) ==
    LET r == getScaleSet(cache, azure, vmSetName, env.f1, env.omit)
        configs == r.value.NetworkInterfaceConfigurations
        nic == getPrimaryNetworkConfiguration(configs)
        ip == getPrimaryIPConfigForScaleSet(configs[nic])
    IN
    IF r.err # Nil
    THEN poolResult(r.err, r.cache, azure)
    ELSE IF ~r.exists
    THEN poolResult("scaleSetNotFound", r.cache, azure)
    ELSE IF nic = 0
    THEN poolResult("noPrimaryInterface", r.cache, azure)
    ELSE IF ip = 0
    THEN poolResult("noPrimaryIPConfiguration", r.cache, azure)
    ELSE ensureVMSetAddPool(r.cache, azure, backendPoolID, r.value, nic, ip, env)

\* ensureScaleSetBackendPoolDeleted from the removal loop on. The scale set is
\* sent a second time when the new list is empty; the error of that is dropped.
deleteFromScaleSetPools(cache, azure, poolID, vmss, nic, ip, env) ==
    LET prev == poolsAt(vmss.NetworkInterfaceConfigurations, nic, ip)
        removed == removePool(prev, poolID)
        newVMSS == withPools(vmss, nic, ip, removed.newBackendPools)
        changed == [cache EXCEPT !.data[vmss.Name] = newVMSS]
        sent == createOrUpdateVMSS(azure, newVMSS, env.createOrUpdate)
        again == createOrUpdateVMSS(sent.azure, newVMSS, env.again)
        read == [poolResult(Nil, cache, azure) EXCEPT !.prev = prev]
        found == [read EXCEPT !.found = TRUE, !.cache = changed,
                              !.payload = removed.newBackendPools, !.updates = 1]
    IN
    IF Len(prev) = 0
    THEN read
    ELSE IF ~removed.found
    THEN read
    ELSE IF sent.err # Nil
    THEN [found EXCEPT !.err = sent.err]
    ELSE IF updateVMSSInstances(env.updateInstances) # Nil
    THEN [found EXCEPT !.err = updateVMSSInstances(env.updateInstances),
                       !.azure = sent.azure]
    ELSE IF Len(removed.newBackendPools) = 0
    THEN [found EXCEPT !.azure = again.azure, !.updates = 2]
    ELSE [found EXCEPT !.azure = sent.azure]

ensureScaleSetBackendPoolDeleted(cache, azure, poolID, ssName, env) ==
    LET r == getScaleSet(cache, azure, ssName, env.f1, env.omit)
        configs == r.value.NetworkInterfaceConfigurations
        nic == getPrimaryNetworkConfiguration(configs)
        ip == getPrimaryIPConfigForScaleSet(configs[nic])
    IN
    IF r.err # Nil
    THEN poolResult(r.err, r.cache, azure)
    ELSE IF ~r.exists
    THEN poolResult(Nil, r.cache, azure)
    ELSE IF nic = 0
    THEN poolResult("noPrimaryInterface", r.cache, azure)
    ELSE IF ip = 0
    THEN poolResult("noPrimaryIPConfiguration", r.cache, azure)
    ELSE deleteFromScaleSetPools(r.cache, azure, poolID, r.value, nic, ip, env)

\* The IP configuration IDs of the backend pool: of an instance of a scale set
\* in a resource group, or of an availability-set VM.
vmssIPConfigurationID(resourceGroup, scaleSet) ==
    [kind |-> "vmss", resourceGroup |-> resourceGroup, scaleSet |-> scaleSet]

vmasIPConfigurationID ==
    [kind |-> "vmas", resourceGroup |-> "rg1", scaleSet |-> ""]

getScaleSetAndResourceGroupNameByIPConfigurationID(ipConfigurationID) ==
    IF ipConfigurationID.kind = "vmss"
    THEN [scaleSetName |-> ipConfigurationID.scaleSet,
          resourceGroup |-> ipConfigurationID.resourceGroup, err |-> Nil]
    ELSE [scaleSetName |-> "", resourceGroup |-> "", err |-> ErrorNotVmssInstance]

\* vmssNamesMap: vmSetName with a basic load balancer; with a standard one the
\* scale sets of the IP configurations in the cluster's resource group.
vmssNamesMap(vmSetName, ipConfigurationIDs) ==
    IF useStandardLoadBalancer
    THEN {getScaleSetAndResourceGroupNameByIPConfigurationID(ipConfigurationIDs[k]).scaleSetName :
            k \in {j \in 1..Len(ipConfigurationIDs) :
                     LET m == getScaleSetAndResourceGroupNameByIPConfigurationID(
                                  ipConfigurationIDs[j])
                     IN m.err = Nil /\ EqualFold(m.resourceGroup, ClusterResourceGroup)}}
    ELSE {vmSetName}

\* VirtualMachineScaleSetsClient.CreateOrUpdate and, with CloudProviderBackoff,
\* the CreateOrUpdateVmssWithRetry that follows a failure.
createOrUpdateVmss(azure, vmssName, newVMSS, first, retry) ==
    LET accepted == [azure EXCEPT ![vmssName] = newVMSS]
        outcome == IF vmssName \in DOMAIN azure THEN first
                   ELSE [resp |-> 404, err |-> "apiErr"]
    IN
    IF CloudProviderBackoff /\ shouldRetryHTTPRequest(outcome.resp, outcome.err)
    THEN IF retry.err # Nil \/ vmssName \notin DOMAIN azure
         THEN [err |-> ErrWaitTimeout, azure |-> azure, updates |-> 2]
         ELSE [err |-> outcome.err, azure |-> accepted, updates |-> 2]
    ELSE [err |-> outcome.err,
          azure |-> IF outcome.err = Nil THEN accepted ELSE azure,
          updates |-> 1]

\* The body of the loop of ensureBackendPoolDeletedFromVMSS for one scale set,
\* once the primary IP configuration is found.
deleteFromVMSSPools(cache, azure, backendPoolID, vmss, nic, ip, env) ==
    LET prev == poolsAt(vmss.NetworkInterfaceConfigurations, nic, ip)
        removed == removePool(prev, backendPoolID)
        newVMSS == withPools(vmss, nic, ip, removed.newBackendPools)
        changed == [cache EXCEPT !.data[vmss.Name] = newVMSS]
        sent == createOrUpdateVmss(azure, vmss.Name, newVMSS, env.createOrUpdate, env.again)
        read == [poolResult(Nil, cache, azure) EXCEPT !.prev = prev]
    IN
    IF ~removed.found
    THEN read
    ELSE [read EXCEPT !.err = sent.err, !.azure = sent.azure, !.found = TRUE,
                      !.cache = changed, !.payload = removed.newBackendPools,
                      !.updates = sent.updates]

\* The loop body for one scale set. The provisioning state is read before the
\* error of getVMSS is looked at: with an error the scale set is nil and the read
\* panics.
deleteFromOneVMSS(cache, azure, backendPoolID, vmssName, env) ==
    LET r == getVMSS(cache, azure, vmssName, env.f1, env.f2)
        configs == r.value.NetworkInterfaceConfigurations
        nic == getPrimaryNetworkInterfaceConfigurationForScaleSet(configs)
        ip == getPrimaryIPConfigFromVMSSNetworkConfig(configs[nic])
    IN
    IF r.err # Nil
    THEN poolResult("panic", r.cache, azure)
    ELSE IF EqualFold(r.value.ProvisioningState, "Deallocating")
    THEN poolResult(Nil, r.cache, azure)
    ELSE IF configs = NilNics
    THEN poolResult(Nil, r.cache, azure)
    ELSE IF nic = 0
    THEN poolResult("noPrimaryInterface", r.cache, azure)
    ELSE IF ip = 0
    THEN poolResult("noPrimaryIPConfiguration", r.cache, azure)
    ELSE deleteFromVMSSPools(r.cache, azure, backendPoolID, r.value, nic, ip, env)

\* The IP configuration IDs of the calls name at most one scale set of the
\* cluster's resource group, so the loop runs at most once.
ensureBackendPoolDeletedFromVMSS(cache, azure, backendPoolID, vmSetName, ipConfigurationIDs, env) ==
    LET names == vmssNamesMap(vmSetName, ipConfigurationIDs) IN
    IF names = {}
    THEN poolResult(Nil, cache, azure)
    ELSE deleteFromOneVMSS(cache, azure, backendPoolID, CHOOSE n \in names : TRUE, env)

\* An IP configuration whose ID is nil.
NilIPConfigurationID ==
    [kind |-> "nil", resourceGroup |-> "", scaleSet |-> ""]

\* extractScaleSetNameByProviderID: the scale-set name of an ID that scaleSetNameRE
\* matches, ErrorNotVmssInstance for any other.
extractScaleSetNameByProviderID(providerID) ==
    IF providerID.kind = "vmss"
    THEN [name |-> providerID.scaleSet, err |-> Nil]
    ELSE [name |-> "", err |-> ErrorNotVmssInstance]

\* A network.BackendAddressPool: its ID, whether BackendIPConfigurations is
\* non-nil, and the IDs of its backend IP configurations.
backendAddressPool(ID, hasConfigurations, ipConfigurationIDs) ==
    [ID |-> ID, hasConfigurations |-> hasConfigurations,
     BackendIPConfigurations |-> ipConfigurationIDs]

\* The mutant of scalesets: the pool ID is not looked at.
scalesetsOfAnyPool(backendAddressPools, poolID) ==
    UNION {{backendAddressPools[k].BackendIPConfigurations[j].scaleSet :
              j \in 1..Len(backendAddressPools[k].BackendIPConfigurations)} :
             k \in 1..Len(backendAddressPools)} \ {""}

\* The first loop of EnsureBackendPoolDeleted: the scale sets named by the
\* backend IP configurations of the first pool that has the ID, letter case
\* aside, and a non-nil list of configurations.
scalesets(backendAddressPools, poolID) ==
    LET hits == {k \in 1..Len(backendAddressPools) :
                   /\ EqualFold(backendAddressPools[k].ID, poolID)
                   /\ backendAddressPools[k].hasConfigurations}
        first == CHOOSE k \in hits : \A j \in hits : k <= j
        configs == backendAddressPools[first].BackendIPConfigurations
    IN
    IF hits = {}
    THEN {}
    ELSE {extractScaleSetNameByProviderID(configs[j]).name :
            j \in {k \in 1..Len(configs) :
                     /\ configs[k].kind # "nil"
                     /\ extractScaleSetNameByProviderID(configs[k]).err = Nil}}

\* The second loop of EnsureBackendPoolDeleted over the scale sets in the order
\* the range over the set yields them: a scale set other than vmSetName is
\* skipped under a basic load balancer, and the first error ends the loop. calls
\* lists the scale sets ensureScaleSetBackendPoolDeleted was called for with
\* what each call returned.
RECURSIVE ensureScaleSetsBackendPoolDeleted(_, _, _, _, _, _, _)
ensureScaleSetsBackendPoolDeleted(cache, azure, poolID, vmSetName, order, envs, calls) ==
    IF order = <<>>
    THEN [err |-> Nil, cache |-> cache, azure |-> azure, calls |-> calls]
    ELSE LET ssName == Head(order)
             r == ensureScaleSetBackendPoolDeleted(cache, azure, poolID, ssName,
                                                   envs[ssName])
             called == Append(calls, [ssName |-> ssName, err |-> r.err])
         IN
         IF ~useStandardLoadBalancer /\ ~EqualFold(ssName, vmSetName)
         THEN ensureScaleSetsBackendPoolDeleted(cache, azure, poolID, vmSetName,
                                                Tail(order), envs, calls)
         ELSE IF r.err # Nil
         THEN [err |-> r.err, cache |-> r.cache, azure |-> r.azure, calls |-> called]
         ELSE ensureScaleSetsBackendPoolDeleted(r.cache, r.azure, poolID, vmSetName,
                                                Tail(order), envs, called)

\* EnsureBackendPoolDeleted. backendAddressPools is nil or a list of pools;
\* order is the order in which the range yields the scale sets.
EnsureBackendPoolDeleted(cache, azure, poolID, vmSetName, backendAddressPools, order, envs) ==
    IF backendAddressPools.nil
    THEN [err |-> Nil, cache |-> cache, azure |-> azure, calls |-> <<>>]
    ELSE ensureScaleSetsBackendPoolDeleted(cache, azure, poolID, vmSetName, order,
                                           envs, <<>>)

\* ------------------------------------------------------------------ VM set names

\* A third scale-set instance name.
vm2 ==
    <<"v", "m", "0", "0", "0", "0", "0", "2">>

\* a < b for strings, as sort.Strings compares them: byte by byte, capitals
\* before small letters. inOrder lists the strings of the model in that order.
less(a, b) ==
    LET inOrder == <<"VMSS1", "Vmss1", "bogus", "vmss1", "vmss2">>
        rank(x) == CHOOSE k \in 1..Len(inOrder) : inOrder[k] = x
    IN rank(a) < rank(b)

\* sort.Strings
RECURSIVE sortStrings(_)
sortStrings(names) ==
    IF names = <<>>
    THEN <<>>
    ELSE LET rest == sortStrings(Tail(names))
             before == SelectSeq(rest, LAMBDA x : less(x, Head(names)))
             after == SelectSeq(rest, LAMBDA x : ~less(x, Head(names)))
         IN before \o <<Head(names)>> \o after

\* getAgentPoolScaleSets from node nx on. A node is its name, whether
\* isMasterNode holds of it (master) and whether
\* ShouldNodeExcludedFromLoadBalancer does (excluded). Masters and excluded nodes are
\* skipped, the error of getVmssVM ends the loop, a node without a scale-set
\* name is skipped.
RECURSIVE getAgentPoolScaleSets(_, _, _, _, _, _)
getAgentPoolScaleSets(cache, azure, nodes, f1, f2, agentPoolScaleSets) ==
    IF nodes = <<>>
    THEN [names |-> agentPoolScaleSets, err |-> Nil, cache |-> cache]
    ELSE LET r == getVmssVM(cache, azure, Head(nodes).Name, f1, f2) IN
         IF Head(nodes).master \/ Head(nodes).excluded
         THEN getAgentPoolScaleSets(cache, azure, Tail(nodes), f1, f2, agentPoolScaleSets)
         ELSE IF r.err # Nil
         THEN [names |-> <<>>, err |-> r.err, cache |-> r.cache]
         ELSE IF r.value.vmssName = ""
         THEN getAgentPoolScaleSets(r.cache, azure, Tail(nodes), f1, f2, agentPoolScaleSets)
         ELSE getAgentPoolScaleSets(r.cache, azure, Tail(nodes), f1, f2,
                                    Append(agentPoolScaleSets, r.value.vmssName))

\* What getServiceLoadBalancerMode reads from the annotation of the service.
serviceLoadBalancerMode(hasMode, isAuto, serviceVMSetNames) ==
    [hasMode |-> hasMode, isAuto |-> isAuto, serviceVMSetNames |-> serviceVMSetNames]

\* The nil *[]string; a list that is not nil has nil FALSE and its names.
NilNames ==
    [nil |-> TRUE, names |-> <<>>]

\* The mutant of defaultVMSetNames: no name at all.
defaultVMSetNamesEmpty(PrimaryScaleSetName) ==
    [nil |-> FALSE, names |-> <<>>]

\* Without a mode the list is the primary scale set alone.
defaultVMSetNames(PrimaryScaleSetName) ==
    [nil |-> FALSE, names |-> <<PrimaryScaleSetName>>]

\* The validation loop of GetVMSetNames from name sasx on. found is declared
\* before the loop and never reset.
RECURSIVE validateVMSetNames(_, _, _, _)
validateVMSetNames(serviceVMSetNames, scaleSetNames, sasx, found) ==
    LET hits == {asx \in 1..Len(scaleSetNames) :
                   EqualFold(scaleSetNames[asx], serviceVMSetNames[sasx])}
        first == CHOOSE asx \in hits : \A k \in hits : asx <= k
    IN
    IF sasx > Len(serviceVMSetNames)
    THEN [err |-> Nil, names |-> serviceVMSetNames]
    ELSE IF hits # {}
    THEN validateVMSetNames([serviceVMSetNames EXCEPT ![sasx] = scaleSetNames[first]],
                            scaleSetNames, sasx + 1, TRUE)
    ELSE IF ~found
    THEN [err |-> "scaleSetNotFound", names |-> serviceVMSetNames]
    ELSE validateVMSetNames(serviceVMSetNames, scaleSetNames, sasx + 1, found)

\* GetVMSetNames. vmSetNames, the named result, is assigned only when the
\* annotation names scale sets.
GetVMSetNames(cache, azure, PrimaryScaleSetName, service, nodes, f1, f2) ==
    LET agentPool == getAgentPoolScaleSets(cache, azure, nodes, f1, f2, <<>>)
        scaleSetNames == sortStrings(agentPool.names)
        validated == validateVMSetNames(service.serviceVMSetNames, scaleSetNames, 1, FALSE)
        failed(err) == [vmSetNames |-> NilNames, err |-> err, cache |-> agentPool.cache,
                        scaleSetNames |-> agentPool.names]
    IN
    IF ~service.hasMode
    THEN [vmSetNames |-> defaultVMSetNames(PrimaryScaleSetName), err |-> Nil,
          cache |-> cache, scaleSetNames |-> <<>>]
    ELSE IF agentPool.err # Nil
    THEN failed(agentPool.err)
    ELSE IF Len(agentPool.names) = 0
    THEN failed("noScaleSetsFound")
    ELSE IF service.isAuto
    THEN [failed(Nil) EXCEPT !.scaleSetNames = scaleSetNames]
    ELSE IF Len(service.serviceVMSetNames) = 0
    THEN [failed("emptyAnnotation") EXCEPT !.scaleSetNames = scaleSetNames]
    ELSE IF validated.err # Nil
    THEN [failed(validated.err) EXCEPT !.scaleSetNames = scaleSetNames]
    ELSE [vmSetNames |-> [nil |-> FALSE, names |-> validated.names], err |-> Nil,
          cache |-> agentPool.cache, scaleSetNames |-> scaleSetNames]

\* ------------------------------------------------------------------ zones

\* The decimal digits, in order of value.
DecimalDigits ==
    <<"0", "1", "2", "3", "4", "5", "6", "7", "8", "9">>

\* The number the digits spell; -1 when one of the characters is no digit.
RECURSIVE parseDecimal(_)
parseDecimal(s) ==
    LET hits == {k \in 1..Len(DecimalDigits) : DecimalDigits[k] = s[Len(s)]}
        front == parseDecimal(SubSeq(s, 1, Len(s) - 1))
    IN
    IF s = <<>>
    THEN 0
    ELSE IF hits = {} \/ front < 0
    THEN -1
    ELSE front * 10 + (CHOOSE k \in hits : TRUE) - 1

\* strconv.Atoi: an optional sign and at least one digit, or an error.
Atoi(s) ==
    LET signed == s # <<>> /\ s[1] \in {"+", "-"}
        digits == IF signed THEN Tail(s) ELSE s
    IN
    IF digits = <<>> \/ parseDecimal(digits) < 0
    THEN [value |-> 0, err |-> "syntaxErr"]
    ELSE [value |-> IF signed /\ s[1] = "-" THEN 0 - parseDecimal(digits)
                    ELSE parseDecimal(digits),
          err |-> Nil]

\* strconv.Itoa
RECURSIVE Itoa(_)
Itoa(n) ==
    IF n < 0
    THEN <<"-">> \o Itoa(0 - n)
    ELSE IF n < 10
    THEN <<DecimalDigits[n + 1]>>
    ELSE Itoa(n \div 10) \o <<DecimalDigits[(n % 10) + 1]>>

\* az.makeZone: the location in small letters, a dash and the zone ID.
makeZone(location, zoneID) ==
    LET lower(c) == CASE c = "E" -> "e" [] c = "U" -> "u" [] OTHER -> c
    IN [k \in 1..Len(location) |-> lower(location[k])] \o <<"-">> \o Itoa(zoneID)

\* cloudprovider.Zone{}
EmptyZone ==
    [FailureDomain |-> <<>>, Region |-> <<>>]

\* The scale-set VM with its zones, its location and the platform fault domain
\* of its instance view; the zones and the instance view may be nil.
zonedVM(name, zones, location, instanceView) ==
    [vmssName |-> "vmss1", instanceID |-> "0", resourceGroup |-> "rg1",
     ID |-> [subscription |-> "sub", resourceGroup |-> "RG1", scaleSet |-> "vmss1",
             instanceID |-> "0"],
     powerState |-> "running", NetworkInterfaceConfigurations |-> NilNics,
     Zones |-> zones, Location |-> location, InstanceView |-> instanceView]

\* The mutant of zoneOf: the fault domain is preferred to the zones.
zoneOfFaultDomainFirst(vm) ==
    IF ~vm.InstanceView.nil /\ ~vm.InstanceView.PlatformFaultDomain.nil
    THEN [failureDomain |-> Itoa(vm.InstanceView.PlatformFaultDomain.value),
          err |-> Nil, known |-> TRUE]
    ELSE IF ~vm.Zones.nil /\ Len(vm.Zones.list) > 0 /\ Atoi(vm.Zones.list[1]).err = Nil
    THEN [failureDomain |-> makeZone(vm.Location, Atoi(vm.Zones.list[1]).value),
          err |-> Nil, known |-> TRUE]
    ELSE [failureDomain |-> <<>>, err |-> "noZoneInfo", known |-> FALSE]

\* The failure domain of GetZoneByNodeName: the zone of the first zone ID, the
\* fault domain when there are no zones, and otherwise no zone information
\* (known is FALSE). A first zone ID that is not a number is an error.
zoneOf(vm) ==
    IF ~vm.Zones.nil /\ Len(vm.Zones.list) > 0
    THEN IF Atoi(vm.Zones.list[1]).err # Nil
         THEN [failureDomain |-> <<>>, err |-> "parseZoneErr", known |-> TRUE]
         ELSE [failureDomain |-> makeZone(vm.Location, Atoi(vm.Zones.list[1]).value),
               err |-> Nil, known |-> TRUE]
    ELSE IF ~vm.InstanceView.nil /\ ~vm.InstanceView.PlatformFaultDomain.nil
    THEN [failureDomain |-> Itoa(vm.InstanceView.PlatformFaultDomain.value),
          err |-> Nil, known |-> TRUE]
    ELSE [failureDomain |-> <<>>, err |-> "noZoneInfo", known |-> FALSE]

\* GetZoneByNodeName. Without zone information the cache entry of the node is
\* deleted (deleteCacheForNode).
GetZoneByNodeName(cache, truth, name, fas, f1, f2) ==
    LET as == isNodeManagedByAvailabilitySet(name, fas)
        r == getVmssVM(cache, truth, name, f1, f2)
        z == zoneOf(r.value)
        none == [zone |-> EmptyZone, err |-> Nil, cache |-> cache, vm |-> NotFound,
                 delegated |-> FALSE, invalidated |-> FALSE]
    IN
    IF as.err # Nil
    THEN [none EXCEPT !.err = as.err]
    ELSE IF as.managed
    THEN [none EXCEPT !.delegated = TRUE]
    ELSE IF r.err # Nil
    THEN [none EXCEPT !.err = r.err, !.cache = r.cache]
    ELSE IF ~z.known
    THEN [none EXCEPT !.err = z.err, !.cache = cacheDelete(r.cache), !.vm = r.value,
                      !.invalidated = TRUE]
    ELSE IF z.err # Nil
    THEN [none EXCEPT !.err = z.err, !.cache = r.cache, !.vm = r.value]
    ELSE [none EXCEPT !.zone = [FailureDomain |-> z.failureDomain,
                                Region |-> r.value.Location],
                      !.cache = r.cache, !.vm = r.value]

\* ------------------------------------------------------------------ scale-set calls

\* No call yet. Every call replaces the record: its name, arguments and what it
\* started from (whether the cache held data, whether that data and whether
\* Azure held what is looked up), then what it returned and did.
NoCall ==
    [op |-> "none", arg |-> <<>>, fas |-> "ok", f1 |-> "ok", f2 |-> "ok",
     cached |-> FALSE, inCache |-> FALSE, inAzure |-> FALSE,
     err |-> Nil, value |-> NotFound, gets |-> 0, deletes |-> 0,
     pool |-> "", vmSetName |-> "", prev |-> <<>>, found |-> FALSE,
     azurePools |-> <<>>, payload |-> <<>>, updates |-> 0, invalidated |-> FALSE]

\* The record of a lookup with result r.
lookupCall(name, arg, f, cache, inCache, inAzure, r) ==
    [NoCall EXCEPT !.op = name, !.arg = arg, !.f1 = f[1], !.f2 = f[2],
                   !.cached = cache.present, !.inCache = inCache, !.inAzure = inAzure,
                   !.err = r.err, !.value = r.value, !.gets = r.gets,
                   !.deletes = r.deletes]

\* The outcomes of the first and the second fetch from Azure, should the call
\* come to them.
FetchPairs ==
    {<<"ok", "ok">>, <<"ok", "err">>, <<"err", "ok">>}

\* The instances getVmssVMByInstanceID is asked for.
InstanceKeys ==
    {<<"rg1", "vmss1", "0">>, <<"RG1", "VMSS1", "1">>, <<"rg2", "vmss1", "0">>,
     <<"rg1", "vmss2", "0">>, <<"rg1", "vmss1", "2">>}

GetVMSS ==
    \E vmssName \in ScaleSetNames, f \in FetchPairs :
      LET r == getVMSS(vmssCache, azureVMSS, vmssName, f[1], f[2]) IN
        /\ vmssCache' = r.cache
        /\ last' = lookupCall("getVMSS", vmssName, f, vmssCache,
                              vmssName \in DOMAIN vmssCache.data,
                              vmssName \in DOMAIN azureVMSS, r)
        /\ UNCHANGED <<useStandardLoadBalancer, IPv6DualStack, azureVMs, azureVMSS,
                       vmssVMCache>>
        /\ UNCHANGED backoffVars

GetVmssVM ==
    \E nodeName \in MachineNames, f \in FetchPairs :
      LET r == getVmssVM(vmssVMCache, azureVMs, nodeName, f[1], f[2]) IN
        /\ vmssVMCache' = r.cache
        /\ last' = lookupCall("getVmssVM", nodeName, f, vmssVMCache,
                              nodeName \in DOMAIN vmssVMCache.data,
                              nodeName \in DOMAIN azureVMs, r)
        /\ UNCHANGED <<useStandardLoadBalancer, IPv6DualStack, azureVMs, azureVMSS,
                       vmssCache>>
        /\ UNCHANGED backoffVars

\* Whether the data holds the instance with these identifiers, letter case
\* aside.
holdsInstance(data, key) ==
    \E n \in DOMAIN data :
        /\ ToLower(data[n].resourceGroup) = ToLower(key[1])
        /\ ToLower(data[n].vmssName) = ToLower(key[2])
        /\ ToLower(data[n].instanceID) = ToLower(key[3])

GetVmssVMByInstanceID ==
    \E key \in InstanceKeys, f \in FetchPairs :
      LET r == getVmssVMByInstanceID(vmssVMCache, azureVMs, key[1], key[2], key[3],
                                     f[1], f[2])
      IN
        /\ vmssVMCache' = r.cache
        /\ last' = lookupCall("getVmssVMByInstanceID", key, f, vmssVMCache,
                              holdsInstance(vmssVMCache.data, key),
                              holdsInstance(azureVMs, key), r)
        /\ UNCHANGED <<useStandardLoadBalancer, IPv6DualStack, azureVMs, azureVMSS,
                       vmssCache>>
        /\ UNCHANGED backoffVars

GetInstanceID ==
    \E name \in MachineNames, fas \in FetchOutcomes, f \in FetchPairs :
      LET r == GetInstanceIDByNodeName(vmssVMCache, azureVMs, name, fas, f[1], f[2]) IN
        /\ vmssVMCache' = r.cache
        /\ last' = [lookupCall("GetInstanceIDByNodeName", name, f, vmssVMCache,
                               name \in DOMAIN vmssVMCache.data,
                               name \in DOMAIN azureVMs, r) EXCEPT !.fas = fas]
        /\ UNCHANGED <<useStandardLoadBalancer, IPv6DualStack, azureVMs, azureVMSS,
                       vmssCache>>
        /\ UNCHANGED backoffVars

\* ---- the pool calls

\* The nodes the pool calls name.
PoolNodeNames ==
    {vm0, vm1, shortName}

VMSetNames ==
    {"", "VMSS1", "vmss2"}

\* The pools Azure holds on the IP configuration marked primary of the interface
\* marked primary of the instance or scale set under the key; none when there
\* is no such object or configuration.
azurePrimaryPools(azure, key) ==
    LET configs == azure[key].NetworkInterfaceConfigurations
        nic == CHOOSE k \in 1..Len(configs) : configs[k].Primary
        ip == CHOOSE k \in 1..Len(configs[nic].IPConfigurations) :
                configs[nic].IPConfigurations[k].Primary
    IN IF key \notin DOMAIN azure THEN <<>>
       ELSE IF configs = NilNics THEN <<>>
       ELSE IF \A k \in 1..Len(configs) : ~configs[k].Primary THEN <<>>
       ELSE poolsAt(configs, nic, ip)

\* The record of a pool call with result r, on Azure as the call found it.
poolCall(name, arg, backendPoolID, vmSetName, azure, r) ==
    [NoCall EXCEPT !.op = name, !.arg = arg, !.pool = backendPoolID,
                   !.vmSetName = vmSetName, !.err = r.err, !.prev = r.prev,
                   !.found = r.found, !.azurePools = azurePrimaryPools(azure, arg),
                   !.payload = r.payload, !.updates = r.updates,
                   !.invalidated = r.invalidated]

\* The environments a call on a scale-set VM can meet under the configuration.
\* An answer that cannot be asked for is left at its first value: no Update
\* follows a failing GetNodeResourceGroup, no retry an accepted Update.
CallEnvs ==
    {e \in {callEnv(f, sameLB, nrg, update, retry) :
              f \in FetchPairs,
              sameLB \in IF useStandardLoadBalancer THEN SameLBOutcomes ELSE {"same"},
              nrg \in FetchOutcomes,
              update \in UpdateOutcomes,
              retry \in IF CloudProviderBackoff THEN UpdateOutcomes
                        ELSE {[resp |-> 200, err |-> Nil]}} :
        /\ e.nrg = "err" => e.update.err = Nil
        /\ e.update.err = Nil => e.retry.err = Nil}

EnsureHostInPoolCall ==
    \E nodeName \in PoolNodeNames, backendPoolID \in BackendPoolIDs,
       vmSetName \in VMSetNames, ipv6 \in IF IPv6DualStack THEN BOOLEAN ELSE {FALSE},
       env \in CallEnvs :
      LET r == EnsureHostInPool(vmssVMCache, azureVMs, nodeName, backendPoolID,
                                vmSetName, ipv6, env)
      IN
        /\ vmssVMCache' = r.cache
        /\ azureVMs' = r.azure
        /\ last' = poolCall("EnsureHostInPool", nodeName, backendPoolID, vmSetName,
                            azureVMs, r)
        /\ UNCHANGED <<useStandardLoadBalancer, IPv6DualStack, azureVMSS, vmssCache>>
        /\ UNCHANGED backoffVars

EnsureBackendPoolDeletedFromNodeCall ==
    \E nodeName \in PoolNodeNames, backendPoolID \in BackendPoolIDs,
       env \in {e \in CallEnvs : e.sameLB = "same"} :
      LET r == ensureBackendPoolDeletedFromNode(vmssVMCache, azureVMs, nodeName,
                                                backendPoolID, env)
      IN
        /\ vmssVMCache' = r.cache
        /\ azureVMs' = r.azure
        /\ last' = poolCall("ensureBackendPoolDeletedFromNode", nodeName,
                            backendPoolID, "", azureVMs, r)
        /\ UNCHANGED <<useStandardLoadBalancer, IPv6DualStack, azureVMSS, vmssCache>>
        /\ UNCHANGED backoffVars

\* The environments a call on a scale set can meet under the configuration.
ScaleSetEnvs ==
    {scaleSetEnv(f, omit, sameLB, createOrUpdate, again, updateInstances) :
        f \in FetchPairs,
        omit \in BOOLEAN,
        sameLB \in IF useStandardLoadBalancer THEN SameLBOutcomes ELSE {"same"},
        createOrUpdate \in UpdateOutcomes,
        again \in UpdateOutcomes,
        updateInstances \in UpdateOutcomes}

EnsureHostsInVMSetPoolCall ==
    \E backendPoolID \in BackendPoolIDs, vmSetName \in {"vmss1", "vmss2"},
       env \in {e \in ScaleSetEnvs : e.f2 = "ok" /\ e.again.err = Nil} :
      LET r == ensureHostsInVMSetPool(vmssCache, azureVMSS, backendPoolID, vmSetName, env)
      IN
        /\ vmssCache' = r.cache
        /\ azureVMSS' = r.azure
        /\ last' = poolCall("ensureHostsInVMSetPool", vmSetName, backendPoolID,
                            vmSetName, azureVMSS, r)
        /\ UNCHANGED <<useStandardLoadBalancer, IPv6DualStack, azureVMs, vmssVMCache>>
        /\ UNCHANGED backoffVars

EnsureScaleSetBackendPoolDeletedCall ==
    \E poolID \in BackendPoolIDs, ssName \in {"vmss1", "vmss2"},
       env \in {e \in ScaleSetEnvs : e.f2 = "ok" /\ e.sameLB = "same"} :
      LET r == ensureScaleSetBackendPoolDeleted(vmssCache, azureVMSS, poolID, ssName, env)
      IN
        /\ vmssCache' = r.cache
        /\ azureVMSS' = r.azure
        /\ last' = poolCall("ensureScaleSetBackendPoolDeleted", ssName, poolID, ssName,
                            azureVMSS, r)
        /\ UNCHANGED <<useStandardLoadBalancer, IPv6DualStack, azureVMs, vmssVMCache>>
        /\ UNCHANGED backoffVars

\* The IP configuration ID lists of the calls.
IPConfigurationIDLists ==
    {<<>>, <<vmssIPConfigurationID("RG1", "vmss1")>>, <<vmasIPConfigurationID>>,
     <<vmasIPConfigurationID, vmssIPConfigurationID("rg2", "vmss1")>>}

EnsureBackendPoolDeletedFromVMSSCall ==
    \E backendPoolID \in BackendPoolIDs, vmSetName \in {"vmss1", "vmss2"},
       ipConfigurationIDs \in IPConfigurationIDLists,
       env \in {e \in ScaleSetEnvs :
                  /\ ~e.omit /\ e.sameLB = "same" /\ e.updateInstances.err = Nil
                  /\ (~CloudProviderBackoff => e.again.err = Nil)} :
      LET r == ensureBackendPoolDeletedFromVMSS(vmssCache, azureVMSS, backendPoolID,
                                                vmSetName, ipConfigurationIDs, env)
      IN
        /\ vmssCache' = r.cache
        /\ azureVMSS' = r.azure
        /\ last' = poolCall("ensureBackendPoolDeletedFromVMSS", vmSetName,
                            backendPoolID, vmSetName, azureVMSS, r)
        /\ UNCHANGED <<useStandardLoadBalancer, IPv6DualStack, azureVMs, vmssVMCache>>
        /\ UNCHANGED backoffVars

\* The backendAddressPools arguments of the calls: nil, none, and lists in which
\* the pool asked for comes first, last, twice, or without configurations.
BackendAddressPoolLists ==
    {[nil |-> TRUE, pools |-> <<>>],
     [nil |-> FALSE, pools |-> <<>>],
     [nil |-> FALSE, pools |->
        <<backendAddressPool("pool1", TRUE,
                             <<vmssIPConfigurationID("rg1", "vmss1"), vmasIPConfigurationID,
                               NilIPConfigurationID, vmssIPConfigurationID("rg1", "vmss2")>>),
          backendAddressPool("pool2", TRUE, <<vmssIPConfigurationID("rg1", "vmss3")>>)>>],
     [nil |-> FALSE, pools |->
        <<backendAddressPool("pool2", TRUE, <<vmssIPConfigurationID("rg1", "vmss2")>>),
          backendAddressPool("POOL1", FALSE, <<>>),
          backendAddressPool("pool1", TRUE,
                             <<vmssIPConfigurationID("rg1", "vmss1"),
                               vmssIPConfigurationID("rg2", "vmss1")>>),
          backendAddressPool("Pool1", TRUE, <<vmssIPConfigurationID("rg1", "vmss3")>>)>>]}

\* The orders in which a range over the set can yield its elements.
Orders(S) ==
    {o \in [1..Cardinality(S) -> S] : \A j, k \in DOMAIN o : j # k => o[j] # o[k]}

\* What one ensureScaleSetBackendPoolDeleted of the loop can meet: a cache that
\* reads or fails, with or without backoff, and a CreateOrUpdate that is
\* accepted or refused.
DeletionEnvs ==
    {e \in ScaleSetEnvs :
       /\ e.f2 = "ok" /\ e.sameLB = "same"
       /\ e.again.err = Nil /\ e.updateInstances.err = Nil
       /\ (e.f1 = "ok" => ~e.omit)}

EnsureBackendPoolDeletedCall ==
    \E poolID \in BackendPoolIDs, vmSetName \in {"VMSS1", "vmss2"},
       backendAddressPools \in BackendAddressPoolLists :
      \E order \in Orders(scalesets(backendAddressPools.pools, poolID)) :
        \E envs \in [scalesets(backendAddressPools.pools, poolID) -> DeletionEnvs] :
          LET r == EnsureBackendPoolDeleted(vmssCache, azureVMSS, poolID, vmSetName,
                                            backendAddressPools, order, envs)
          IN
            /\ vmssCache' = r.cache
            /\ azureVMSS' = r.azure
            /\ last' = [NoCall EXCEPT
                          !.op = "EnsureBackendPoolDeleted", !.pool = poolID,
                          !.vmSetName = vmSetName, !.err = r.err,
                          !.value = [backendAddressPools |-> backendAddressPools,
                                     calls |-> r.calls, cache |-> vmssCache,
                                     azure |-> azureVMSS]]
            /\ UNCHANGED <<useStandardLoadBalancer, IPv6DualStack, azureVMs, vmssVMCache>>
            /\ UNCHANGED backoffVars

\* ---- GetVMSetNames

\* The nodes of the calls: the three instances, a master whose name is not an
\* instance name, an excluded node and a plain node with such names.
NodeKinds ==
    {[Name |-> n, master |-> FALSE, excluded |-> FALSE] : n \in {vm0, vm1, vm2, shortName}}
      \cup {[Name |-> master0, master |-> TRUE, excluded |-> FALSE],
            [Name |-> shortName, master |-> FALSE, excluded |-> TRUE]}

\* The annotations of the calls: none, __auto__, and lists of names.
ServiceModes ==
    {serviceLoadBalancerMode(FALSE, FALSE, <<>>), serviceLoadBalancerMode(TRUE, TRUE, <<>>)}
      \cup {serviceLoadBalancerMode(TRUE, FALSE, names) :
              names \in {<<>>, <<"VMSS1">>, <<"bogus">>, <<"vmss2", "bogus">>,
                         <<"bogus", "vmss2">>}}

GetVMSetNamesCall ==
    \E PrimaryScaleSetName \in {"vmss1", ""}, service \in ServiceModes,
       nodes \in UNION {[1..n -> NodeKinds] : n \in 0..MaxNodes}, f \in FetchPairs :
      LET r == GetVMSetNames(vmssVMCache, azureVMs, PrimaryScaleSetName, service, nodes,
                             f[1], f[2])
      IN
        /\ vmssVMCache' = r.cache
        /\ last' = [NoCall EXCEPT
                      !.op = "GetVMSetNames", !.f1 = f[1], !.f2 = f[2], !.err = r.err,
                      !.value = [vmSetNames |-> r.vmSetNames, service |-> service,
                                 nodes |-> nodes, scaleSetNames |-> r.scaleSetNames,
                                 PrimaryScaleSetName |-> PrimaryScaleSetName,
                                 cache |-> vmssVMCache]]
        /\ UNCHANGED <<useStandardLoadBalancer, IPv6DualStack, azureVMs, azureVMSS,
                       vmssCache>>
        /\ UNCHANGED backoffVars

\* ---- GetZoneByNodeName

GetZoneByNodeNameCall ==
    \E name \in MachineNames, fas \in FetchOutcomes, f \in FetchPairs :
      LET r == GetZoneByNodeName(vmssVMCache, azureVMs, name, fas, f[1], f[2]) IN
        /\ vmssVMCache' = r.cache
        /\ last' = [NoCall EXCEPT
                      !.op = "GetZoneByNodeName", !.arg = name, !.fas = fas,
                      !.f1 = f[1], !.f2 = f[2], !.cached = vmssVMCache.present,
                      !.err = r.err, !.found = r.vm # NotFound,
                      !.invalidated = r.invalidated,
                      !.value = [zone |-> r.zone, vm |-> r.vm,
                                 delegated |-> r.delegated,
                                 cachedAfter |-> r.cache.present]]
        /\ UNCHANGED <<useStandardLoadBalancer, IPv6DualStack, azureVMs, azureVMSS,
                       vmssCache>>
        /\ UNCHANGED backoffVars

\* ---- Azure and time

\* A scale-set instance is created in Azure.
VMCreated ==
    \E n \in ScaleSetVMNames \ DOMAIN azureVMs :
        /\ azureVMs' = [m \in DOMAIN azureVMs \cup {n} |->
                          IF m = n THEN scaleSetVM(n, <<>>) ELSE azureVMs[m]]
        /\ UNCHANGED <<useStandardLoadBalancer, IPv6DualStack, azureVMSS, vmssVMCache,
                       vmssCache, last>>
        /\ UNCHANGED backoffVars

\* A scale-set instance is deleted in Azure.
VMDeleted ==
    \E n \in DOMAIN azureVMs :
        /\ azureVMs' = [m \in DOMAIN azureVMs \ {n} |-> azureVMs[m]]
        /\ UNCHANGED <<useStandardLoadBalancer, IPv6DualStack, azureVMSS, vmssVMCache,
                       vmssCache, last>>
        /\ UNCHANGED backoffVars

\* A scale set is created in Azure.
VMSSCreated ==
    \E n \in {"vmss1"} \ DOMAIN azureVMSS :
        /\ azureVMSS' = [m \in DOMAIN azureVMSS \cup {n} |->
                           IF m = n THEN scaleSetModel(n, <<>>) ELSE azureVMSS[m]]
        /\ UNCHANGED <<useStandardLoadBalancer, IPv6DualStack, azureVMs, vmssVMCache,
                       vmssCache, last>>
        /\ UNCHANGED backoffVars

\* A scale set is deleted in Azure.
VMSSDeleted ==
    \E n \in DOMAIN azureVMSS :
        /\ azureVMSS' = [m \in DOMAIN azureVMSS \ {n} |-> azureVMSS[m]]
        /\ UNCHANGED <<useStandardLoadBalancer, IPv6DualStack, azureVMs, vmssVMCache,
                       vmssCache, last>>
        /\ UNCHANGED backoffVars

\* A cache entry passes its TTL.
CacheExpired ==
    /\ \/ vmssVMCache.present /\ vmssVMCache' = NoEntry /\ UNCHANGED vmssCache
       \/ vmssCache.present /\ vmssCache' = NoEntry /\ UNCHANGED vmssVMCache
    /\ UNCHANGED <<useStandardLoadBalancer, IPv6DualStack, azureVMs, azureVMSS, last>>
    /\ UNCHANGED backoffVars

\* The Cloud after NewCloud: resourceRequestBackoff is set, with at least one
\* step, only when CloudProviderBackoff is on; otherwise it keeps its zero value.
ConfiguredBackoffs ==
    {[enabled |-> TRUE, Steps |-> s] : s \in 1..MaxSteps} \cup {[enabled |-> FALSE, Steps |-> 0]}

InitBackoff ==
    /\ \E c \in ConfiguredBackoffs :
         /\ CloudProviderBackoff = c.enabled
         /\ resourceRequestBackoff = [Steps |-> c.Steps]
    /\ bpc = "idle"
    /\ op = "none"
    /\ backoff = [Steps |-> 0]
    /\ i = 0
    /\ attempts = <<>>
    /\ loops = <<>>
    /\ pages = <<>>
    /\ resultPage = 0
    /\ allItems = <<>>
    /\ ret = [value |-> <<>>, err |-> Nil]

\* The scale-set half before any call: the caches are empty (newScaleSet), the
\* instances and the scale set vmss1 exist, no pool is set.
InitVmss ==
    /\ useStandardLoadBalancer = FALSE
    /\ IPv6DualStack = FALSE
    /\ azureVMs = [n \in ScaleSetVMNames |-> scaleSetVM(n, <<>>)]
    /\ azureVMSS = [n \in {"vmss1"} |-> scaleSetModel(n, <<>>)]
    /\ vmssVMCache = NoEntry
    /\ vmssCache = NoEntry
    /\ last = NoCall

Init ==
    /\ InitBackoff
    /\ InitVmss

Next ==
    \/ \E o \in MutatingOps : MutatingWithRetry(o)
    \/ MutatingAttempt
    \/ \E o \in ListOps : ListWithRetry(o)
    \/ ListAttempt
    \/ NextAttempt
    \/ BackoffTimeout
    \/ GetVirtualMachineWithRetry
    \/ GetVirtualMachineAttempt
    \/ GetVirtualMachineTimeout
    \/ Return

Spec ==
    Init /\ [][Next]_vars

\* The lookups of azure_vmss.go over Azure and the two caches.
NextLookup ==
    \/ GetVMSS
    \/ GetVmssVM
    \/ GetVmssVMByInstanceID
    \/ GetInstanceID
    \/ VMCreated
    \/ VMDeleted
    \/ VMSSCreated
    \/ VMSSDeleted
    \/ CacheExpired

\* The lookups do not read the backoff configuration: one Cloud is enough.
InitLookup ==
    /\ CloudProviderBackoff = FALSE
    /\ Init

SpecLookup ==
    InitLookup /\ [][NextLookup]_vars

\* The backend pool calls, each on what Azure holds at the start: any
\* configuration, and any of the pool lists on the primary IP configuration of
\* the instances and of the scale sets.
InitPool ==
    /\ InitBackoff
    /\ resourceRequestBackoff.Steps <= 1
    /\ useStandardLoadBalancer \in BOOLEAN
    /\ IPv6DualStack \in BOOLEAN
    /\ \E pools \in PoolLists :
         /\ azureVMs = [n \in ScaleSetVMNames |-> scaleSetVM(n, pools)]
         /\ azureVMSS = [n \in {"vmss1", "vmss2"} |-> scaleSetModel(n, pools)]
    /\ vmssVMCache = NoEntry
    /\ vmssCache = NoEntry
    /\ last = NoCall

\* One pool call on the drawn state.
NextPool ==
    \/ last.op = "none" /\ EnsureHostInPoolCall
    \/ last.op = "none" /\ EnsureBackendPoolDeletedFromNodeCall
    \/ last.op = "none" /\ EnsureHostsInVMSetPoolCall
    \/ last.op = "none" /\ EnsureScaleSetBackendPoolDeletedCall
    \/ last.op = "none" /\ EnsureBackendPoolDeletedFromVMSSCall

SpecPool ==
    InitPool /\ [][NextPool]_vars

\* Any sequence of calls on the instances under a basic load balancer, without
\* IPv6DualStack, from an Azure without pools.
InitNodePool ==
    /\ InitPool
    /\ ~useStandardLoadBalancer
    /\ ~IPv6DualStack
    /\ azureVMs = [n \in ScaleSetVMNames |-> scaleSetVM(n, <<>>)]

NextNodePool ==
    \/ EnsureHostInPoolCall
    \/ EnsureBackendPoolDeletedFromNodeCall
    \/ CacheExpired

SpecNodePool ==
    InitNodePool /\ [][NextNodePool]_vars

\* One EnsureBackendPoolDeleted on the drawn state.
NextBackendPool ==
    last.op = "none" /\ EnsureBackendPoolDeletedCall

SpecBackendPool ==
    InitPool /\ [][NextBackendPool]_vars

\* One GetVMSetNames on any Azure in which each of the three instances is
\* missing or belongs to one of two scale sets.
InitVMSetNames ==
    /\ InitBackoff
    /\ ~CloudProviderBackoff
    /\ useStandardLoadBalancer = FALSE
    /\ IPv6DualStack = FALSE
    /\ \E S \in SUBSET {vm0, vm1, vm2} :
         \E of \in [S -> {"Vmss1", "vmss2"}] :
           azureVMs = [n \in S |-> [scaleSetVM(n, <<>>) EXCEPT !.vmssName = of[n],
                                                             !.ID.scaleSet = of[n]]]
    /\ azureVMSS = [n \in {"vmss1"} |-> scaleSetModel(n, <<>>)]
    /\ vmssVMCache = NoEntry
    /\ vmssCache = NoEntry
    /\ last = NoCall

NextVMSetNames ==
    last.op = "none" /\ GetVMSetNamesCall

SpecVMSetNames ==
    InitVMSetNames /\ [][NextVMSetNames]_vars

\* Calls of GetZoneByNodeName on instances with any of these zones, locations
\* and instance views.
InitZone ==
    /\ InitBackoff
    /\ ~CloudProviderBackoff
    /\ useStandardLoadBalancer = FALSE
    /\ IPv6DualStack = FALSE
    /\ \E zones \in {[nil |-> TRUE, list |-> <<>>], [nil |-> FALSE, list |-> <<>>],
                     [nil |-> FALSE, list |-> << <<"1">> >>],
                     [nil |-> FALSE, list |-> << <<"2">>, <<"1">> >>],
                     [nil |-> FALSE, list |-> << <<"x">> >>]},
          location \in {<<"e", "u">>, <<"E", "U">>},
          instanceView \in {[nil |-> TRUE, PlatformFaultDomain |-> [nil |-> TRUE, value |-> 0]]}
                             \cup {[nil |-> FALSE, PlatformFaultDomain |-> d] :
                                     d \in {[nil |-> TRUE, value |-> 0],
                                            [nil |-> FALSE, value |-> 0],
                                            [nil |-> FALSE, value |-> 12]}} :
         azureVMs = [n \in ScaleSetVMNames |-> zonedVM(n, zones, location, instanceView)]
    /\ azureVMSS = [n \in {"vmss1"} |-> scaleSetModel(n, <<>>)]
    /\ vmssVMCache = NoEntry
    /\ vmssCache = NoEntry
    /\ last = NoCall

NextZone ==
    \/ GetZoneByNodeNameCall
    \/ CacheExpired

SpecZone ==
    InitZone /\ [][NextZone]_vars

\* ------------------------------------------------------------------ claims

Last(s) ==
    s[Len(s)]

\* C1: every ExponentialBackoff loop of a wrapper runs with the backoff of
\* requestBackoff, which has Steps = 1 when CloudProviderBackoff is off and is
\* the configured resourceRequestBackoff when it is on; so every loop that
\* returned made its underlying call at least once, and exactly once when
\* backoff is off.
C1_RequestBackoffRunsCallAtLeastOnce ==
    /\ bpc \in {"call", "list", "next"} =>
         backoff.Steps = IF CloudProviderBackoff THEN resourceRequestBackoff.Steps ELSE 1
    /\ bpc = "done" =>
         /\ attempts # <<>>
         /\ \A k \in 1..Len(loops) :
              /\ loops[k] >= 1
              /\ ~CloudProviderBackoff => loops[k] = 1

\* A wrapper returned with backoff off after its single attempt failed.
C1_Witness ==
    /\ bpc = "done"
    /\ ~CloudProviderBackoff
    /\ op \in MutatingOps
    /\ Len(attempts) = 1
    /\ attempts[1].err # Nil
    /\ ret.err = ErrWaitTimeout

\* An attempt that failed in the sense of C3: a non-nil error or a 4xx/5xx status.
failedAttempt(a) ==
    a.err # Nil \/ (399 < a.resp /\ a.resp < 600)

\* C3: in a mutating wrapper an attempt that fails with a non-nil error or a
\* 4xx/5xx status never ends the backoff loop early (the operation returns after
\* such an attempt only with all Steps used and wait.ErrWaitTimeout), and when
\* all Steps attempts fail this way the operation returns wait.ErrWaitTimeout.
C3_FailedAttemptKeepsRetrying ==
    (bpc = "done" /\ op \in MutatingOps /\ attempts # <<>>) =>
        /\ failedAttempt(Last(attempts)) =>
             /\ Len(attempts) = backoff.Steps
             /\ ret.err = ErrWaitTimeout
        /\ ( /\ Len(attempts) = backoff.Steps
             /\ \A k \in 1..Len(attempts) : failedAttempt(attempts[k]) ) =>
             ret.err = ErrWaitTimeout

\* C4: in a listing wrapper, when an attempt returns an error and backoff steps
\* remain, another attempt is made before the operation returns: the operation
\* returns after a failed attempt only when its loop has used all its steps.
C4_ListErrorIsRetried ==
    (bpc = "done" /\ op \in ListOps /\ attempts # <<>> /\ Last(attempts).err # Nil) =>
        i >= backoff.Steps

\* C5: when no request fails, a listing wrapper returns the items of every page
\* reachable through NextLink from the first page, in page order, each once.
C5_ListReturnsEveryPage ==
    (bpc = "done" /\ op \in ListOps /\ \A k \in 1..Len(attempts) : attempts[k].err = Nil) =>
        /\ ret.err = Nil
        /\ ret.value = concat(pages)

\* ---- the lookups

\* A call of one of the three refresh-on-miss lookups that came to read the cache.
lookupRead ==
    /\ last.op \in {"getVMSS", "getVmssVM", "getVmssVMByInstanceID"}
    /\ last.op = "getVmssVM" => last.arg \in ScaleSetVMNames

\* The first cache read failed: the cache held nothing and the fetch failed.
firstReadFails ==
    ~last.cached /\ last.f1 = "err"

\* The first cache read holds the entry: cached data that holds it, or data
\* fetched from an Azure that holds it.
firstReadContains ==
    IF last.cached THEN last.inCache ELSE last.f1 = "ok" /\ last.inAzure

firstReadMisses ==
    ~firstReadFails /\ ~firstReadContains

\* The value returned is the entry asked for.
returnsEntry ==
    /\ last.err = Nil
    /\ last.value # NotFound
    /\ last.op = "getVMSS" => last.value.Name = last.arg
    /\ last.op = "getVmssVM" => last.value = scaleSetVM(last.arg, <<>>)
    /\ last.op = "getVmssVMByInstanceID" =>
          /\ ToLower(last.value.resourceGroup) = ToLower(last.arg[1])
          /\ ToLower(last.value.vmssName) = ToLower(last.arg[2])
          /\ ToLower(last.value.instanceID) = ToLower(last.arg[3])

\* What C2 says of hits, misses and the numbers of Deletes and Gets.
refreshOnMissContract ==
    /\ firstReadContains => (returnsEntry /\ last.deletes = 0 /\ last.gets = 1)
    /\ firstReadMisses =>
          /\ last.deletes = 1
          /\ last.gets = 2
          /\ (last.f2 = "ok" /\ last.inAzure) => returnsEntry
    /\ last.deletes <= 1
    /\ last.gets <= 2

\* C2 as stated: a lookup that finds the entry at its first read returns it and
\* deletes nothing; one that misses deletes the key once, reads once more and
\* returns the entry when the refreshed data holds it; no call deletes more than
\* once or reads more than twice; and a call that returns a cache Get error has
\* deleted nothing.
C2_GetErrorWithoutAnyDelete ==
    lookupRead =>
        /\ refreshOnMissContract
        /\ last.err = ErrCacheGet => last.deletes = 0

\* C2, amended: as above, but an error of the first Get is returned with no Delete
\* and an error of the second Get is returned after the one Delete; a Get error
\* is returned in these two cases only.
C2_RefreshOnMiss ==
    lookupRead =>
        /\ refreshOnMissContract
        /\ firstReadFails =>
              (last.err = ErrCacheGet /\ last.deletes = 0 /\ last.gets = 1)
        /\ (firstReadMisses /\ last.f2 = "err") =>
              (last.err = ErrCacheGet /\ last.deletes = 1 /\ last.gets = 2)
        /\ last.err = ErrCacheGet =>
              (firstReadFails \/ (firstReadMisses /\ last.f2 = "err"))

\* getVmssVM missed a stale cache, deleted the key, fetched again and returned
\* the instance Azure holds.
C2_Witness ==
    /\ last.op = "getVmssVM"
    /\ last.cached /\ ~last.inCache /\ last.inAzure
    /\ last.err = Nil
    /\ last.value = scaleSetVM(last.arg, <<>>)
    /\ last.deletes = 1 /\ last.gets = 2

\* C6: getVmssVM returns InstanceNotFound for every node name that neither the
\* data read first nor the refreshed data holds (the reads themselves succeeding).
C6_AbsentNodeIsInstanceNotFound ==
    ( /\ last.op = "getVmssVM"
      /\ last.f1 = "ok" /\ last.f2 = "ok"
      /\ ~last.inCache /\ ~last.inAzure )
        => last.err = InstanceNotFound

\* The power state of the instance with this name.
isRunning(name) ==
    scaleSetVM(name, <<>>).powerState = "running"

\* C7: for a node the availability set does not manage (all reads succeeding),
\* GetInstanceIDByNodeName returns ("", InstanceNotFound) when the instance does
\* not exist or is not running, and for an existing running scale-set node the
\* resource ID with the resource group in lower case.
C7_InstanceIDOrInstanceNotFound ==
    ( /\ last.op = "GetInstanceIDByNodeName"
      /\ last.fas = "ok" /\ last.f1 = "ok" /\ last.f2 = "ok"
      /\ last.arg \notin AvailabilitySetNodes )
        => /\ (~last.inCache /\ ~last.inAzure) =>
                 (last.err = InstanceNotFound /\ last.value = EmptyID)
           /\ (last.inAzure /\ (last.cached => last.inCache)) =>
                 IF isRunning(last.arg)
                 THEN /\ last.err = Nil
                      /\ last.value = [scaleSetVM(last.arg, <<>>).ID
                                          EXCEPT !.resourceGroup = "rg1"]
                 ELSE last.err = InstanceNotFound /\ last.value = EmptyID

\* ---- the backend pools

\* Whether the list holds an entry equal to the pool ID, letter case aside.
listsPool(pools, poolID) ==
    \E k \in 1..Len(pools) : ToLower(pools[k]) = ToLower(poolID)

\* C8: under a basic load balancer, when EnsureHostInPool returns nil for a node
\* of scale set vmSetName that has interface configurations, the primary IP
\* configuration of the node in Azure lists backendPoolID: the VM read listed it
\* already, or Azure accepted an Update of the previous pools followed by
\* backendPoolID.
C8_NilMeansMemberInAzure ==
    ( /\ last.op = "EnsureHostInPool"
      /\ last.err = Nil
      /\ ~useStandardLoadBalancer
      /\ last.arg = vm0
      /\ ToLower(last.vmSetName) = "vmss1" )
        => /\ listsPool(azurePrimaryPools(azureVMs, vm0), last.pool)
           /\ \/ listsPool(last.prev, last.pool) /\ last.updates = 0
              \/ last.updates > 0 /\ last.payload = Append(last.prev, last.pool)

withoutPool(pools, poolID) ==
    SelectSeq(pools, LAMBDA p : ToLower(p) # ToLower(poolID))

\* C10: when one of the three removal functions finds poolID in the pools of the
\* primary IP configuration and sends an update, the list it sends is the
\* original list without the entries equal to poolID, letter case aside, the
\* other entries once each and in their order.
C10_RemovalSendsListWithoutPool ==
    ( /\ last.op \in {"ensureScaleSetBackendPoolDeleted",
                      "ensureBackendPoolDeletedFromNode",
                      "ensureBackendPoolDeletedFromVMSS"}
      /\ listsPool(last.prev, last.pool)
      /\ last.updates > 0 )
        => last.payload = withoutPool(last.prev, last.pool)

\* The scale sets the backend IP configurations of the pools with the ID name,
\* letter case aside.
namedByPool(pools, poolID) ==
    UNION {{pools[k].BackendIPConfigurations[j].scaleSet :
              j \in 1..Len(pools[k].BackendIPConfigurations)} :
             k \in {n \in 1..Len(pools) : ToLower(pools[n].ID) = ToLower(poolID)}} \ {""}

\* C11: EnsureBackendPoolDeleted with a nil backendAddressPools calls nothing,
\* changes neither the cache nor Azure and returns nil; otherwise every scale
\* set it calls ensureScaleSetBackendPoolDeleted for is named by a backend IP
\* configuration of a pool whose ID is poolID, is called once, and under a
\* basic load balancer is vmSetName (letter case aside); every call but the
\* last returned nil, and the result is what the last call returned, nil when
\* there was no call.
C11_OnlyIntendedScaleSets ==
    last.op = "EnsureBackendPoolDeleted" =>
      LET calls == last.value.calls
          given == last.value.backendAddressPools
      IN
        /\ given.nil =>
             /\ calls = <<>>
             /\ last.err = Nil
             /\ vmssCache = last.value.cache
             /\ azureVMSS = last.value.azure
        /\ \A k \in 1..Len(calls) :
             /\ calls[k].ssName \in namedByPool(given.pools, last.pool)
             /\ ~useStandardLoadBalancer =>
                  ToLower(calls[k].ssName) = ToLower(last.vmSetName)
             /\ k < Len(calls) => calls[k].err = Nil
             /\ \A j \in 1..Len(calls) : j # k => calls[j].ssName # calls[k].ssName
        /\ last.err = IF calls = <<>> THEN Nil ELSE Last(calls).err

\* Under a standard load balancer the pool named two scale sets next to a pool
\* that named a third: the first call returned nil and the second an error,
\* which is the result.
C11_Witness ==
    /\ last.op = "EnsureBackendPoolDeleted"
    /\ useStandardLoadBalancer
    /\ Len(last.value.backendAddressPools.pools) > 1
    /\ Len(last.value.calls) = 2
    /\ last.value.calls[1].err = Nil
    /\ last.value.calls[2].err # Nil
    /\ last.err = last.value.calls[2].err

\* C12: without a mode annotation GetVMSetNames returns the list holding
\* Config.PrimaryScaleSetName alone and a nil error, and reads no node: the
\* cache of the instances is as it was.
C12_NoModeReturnsPrimaryScaleSet ==
    (last.op = "GetVMSetNames" /\ ~last.value.service.hasMode) =>
        /\ last.err = Nil
        /\ ~last.value.vmSetNames.nil
        /\ last.value.vmSetNames.names = <<last.value.PrimaryScaleSetName>>
        /\ vmssVMCache = last.value.cache

\* GetVMSetNames was called without a mode for nodes that are in no scale set
\* and returned the primary scale set.
C12_Witness ==
    /\ last.op = "GetVMSetNames"
    /\ ~last.value.service.hasMode
    /\ Len(last.value.nodes) = 2
    /\ last.value.nodes[1].Name = shortName
    /\ ~last.value.nodes[1].excluded
    /\ last.value.vmSetNames.names = <<"vmss1">>
    /\ last.err = Nil

\* The nodes of the list that are neither masters nor excluded.
eligibleNodes(nodes) ==
    {k \in 1..Len(nodes) : ~nodes[k].master /\ ~nodes[k].excluded}

isSorted(names) ==
    \A j, k \in 1..Len(names) : j < k => ~less(names[k], names[j])

\* C13: in auto mode, a GetVMSetNames that returns a nil error returns a
\* non-nil sorted list whose names are the scale sets of the nodes that are
\* neither masters nor excluded, and it returns an error when those nodes are
\* in no scale set.
C13_AutoModeReturnsEligibleScaleSets ==
    ( /\ last.op = "GetVMSetNames"
      /\ last.value.service.hasMode
      /\ last.value.service.isAuto )
        => LET nodes == last.value.nodes
               result == last.value.vmSetNames
           IN
             /\ last.err = Nil =>
                  /\ ~result.nil
                  /\ isSorted(result.names)
                  /\ {result.names[k] : k \in 1..Len(result.names)}
                       = {azureVMs[nodes[k].Name].vmssName : k \in eligibleNodes(nodes)}
             /\ eligibleNodes(nodes) = {} => last.err # Nil

\* C14: when the annotation names scale sets and the scale sets of the nodes
\* were found, GetVMSetNames returns an error if the list of names is empty or
\* one of them is none of those scale sets, letter case aside; otherwise it
\* returns a nil error and the names, each as the scale set is written.
C14_NamedScaleSetsAreValidated ==
    ( /\ last.op = "GetVMSetNames"
      /\ last.value.service.hasMode
      /\ ~last.value.service.isAuto
      /\ last.value.scaleSetNames # <<>> )
        => LET given == last.value.service.serviceVMSetNames
               actual == last.value.scaleSetNames
               known(name) == \E j \in 1..Len(actual) : ToLower(actual[j]) = ToLower(name)
               written(name) == actual[CHOOSE j \in 1..Len(actual) :
                                         ToLower(actual[j]) = ToLower(name)]
           IN
             IF given = <<>> \/ \E k \in 1..Len(given) : ~known(given[k])
             THEN last.err # Nil
             ELSE /\ last.err = Nil
                  /\ ~last.value.vmSetNames.nil
                  /\ last.value.vmSetNames.names = [k \in 1..Len(given) |-> written(given[k])]

\* The number in decimal, for numbers below 100.
inDecimal(n) ==
    IF n < 10
    THEN <<DecimalDigits[n + 1]>>
    ELSE <<DecimalDigits[(n \div 10) + 1], DecimalDigits[(n % 10) + 1]>>

\* GetZoneByNodeName found the scale-set VM of the node.
zoneCall ==
    last.op = "GetZoneByNodeName" /\ last.found

listsZones(vm) ==
    ~vm.Zones.nil /\ Len(vm.Zones.list) > 0

hasFaultDomain(vm) ==
    ~vm.InstanceView.nil /\ ~vm.InstanceView.PlatformFaultDomain.nil

\* C15 as stated: for a scale-set VM that lists zones the result is the zone of
\* the location and the first zone ID; otherwise, with a platform fault domain,
\* it is that number in decimal; Region is the location; with neither, an error
\* is returned and the cache entry is deleted.
C15_ZoneThenFaultDomain ==
    zoneCall =>
      LET vm == last.value.vm
          zone == last.value.zone
      IN
        IF listsZones(vm)
        THEN /\ last.err = Nil
             /\ zone.FailureDomain = makeZone(vm.Location, parseDecimal(vm.Zones.list[1]))
             /\ zone.Region = vm.Location
        ELSE IF hasFaultDomain(vm)
        THEN /\ last.err = Nil
             /\ zone.FailureDomain = inDecimal(vm.InstanceView.PlatformFaultDomain.value)
             /\ zone.Region = vm.Location
        ELSE /\ last.err # Nil
             /\ last.invalidated
             /\ ~last.value.cachedAfter

\* C15, amended: the zone is returned when the first zone ID is a number; when
\* it is not, an error and the empty zone are returned and the cache entry is
\* kept. The other cases are as stated.
C15_ParsedZoneThenFaultDomain ==
    zoneCall =>
      LET vm == last.value.vm
          zone == last.value.zone
      IN
        IF listsZones(vm) /\ parseDecimal(vm.Zones.list[1]) >= 0
        THEN /\ last.err = Nil
             /\ zone.FailureDomain = makeZone(vm.Location, parseDecimal(vm.Zones.list[1]))
             /\ zone.Region = vm.Location
             /\ ~last.invalidated
        ELSE IF listsZones(vm)
        THEN /\ last.err # Nil
             /\ zone = EmptyZone
             /\ ~last.invalidated
             /\ last.value.cachedAfter
        ELSE IF hasFaultDomain(vm)
        THEN /\ last.err = Nil
             /\ zone.FailureDomain = inDecimal(vm.InstanceView.PlatformFaultDomain.value)
             /\ zone.Region = vm.Location
             /\ ~last.invalidated
        ELSE /\ last.err # Nil
             /\ zone = EmptyZone
             /\ last.invalidated
             /\ ~last.value.cachedAfter

\* A VM with the zones 2 and 1 and the fault domain 12 was read from a cache
\* that held it, and the zone of the first zone ID was returned.
C15_Witness ==
    /\ zoneCall
    /\ last.cached
    /\ last.value.vm.Zones.list = << <<"2">>, <<"1">> >>
    /\ hasFaultDomain(last.value.vm)
    /\ last.value.vm.Location = <<"E", "U">>
    /\ last.value.zone = [FailureDomain |-> <<"e", "u", "-", "2">>, Region |-> <<"E", "U">>]
    /\ last.err = Nil

\* C16: GetVirtualMachineWithRetry makes at least one attempt and stops at the
\* first that succeeds, returning the machine and a nil error; when it returns
\* after a failed attempt, every step was used and the result is the error of
\* that last attempt, not wait.ErrWaitTimeout.
C16_LastErrorInsteadOfTimeout ==
    (bpc = "done" /\ op = "GetVirtualMachineWithRetry") =>
        /\ attempts # <<>>
        /\ \A k \in 1..(Len(attempts) - 1) : attempts[k].err # Nil
        /\ Last(attempts).err = Nil => ret = [value |-> <<"machine">>, err |-> Nil]
        /\ Last(attempts).err # Nil =>
             /\ Len(attempts) = backoff.Steps
             /\ ret.err = Last(attempts).err
             /\ ret.err # ErrWaitTimeout

\* Two attempts failed with different errors and the second error was returned.
C16_Witness ==
    /\ bpc = "done"
    /\ op = "GetVirtualMachineWithRetry"
    /\ Len(attempts) = 2
    /\ attempts[1].err = "apiErr"
    /\ attempts[2].err = InstanceNotFound
    /\ ret.err = InstanceNotFound

====
